---- MODULE Spec2Model ----
(***************************************************************************)
(* Model of the coordination core of ghostcrew:                            *)
(*   - the agent state table       (ghostcrew/agents/state.py)             *)
(*   - the agent execution loop    (ghostcrew/agents/base_agent.py)        *)
(*   - the completion signal       (ghostcrew/tools/completion)            *)
(*   - the worker pool             (ghostcrew/agents/crew/worker_pool.py)  *)
(*   - the crew orchestrator       (ghostcrew/agents/crew/orchestrator.py) *)
(*   - the conversation memory     (ghostcrew/llm/memory.py)               *)
(*   - the shadow graph            (ghostcrew/knowledge/graph.py)          *)
(*   - the notes store             (ghostcrew/tools/notes)                 *)
(*                                                                         *)
(* Strings are sequences of tokens, so that prefix tests and slicing are   *)
(* computed rather than assumed.  A coroutine is modelled by its position  *)
(* between suspension points; everything the code does between two awaits  *)
(* that really suspend is one atomic step.                                 *)
(***************************************************************************)
EXTENDS Integers, Sequences, FiniteSets, TLC

VARIABLES agent, workers, tasks, next_id, client, state_manager, orchestrator,
          memory, conversation, graph, notes

\* the conversation memory with the conversation it is asked about, the shadow
\* graph and the notes store
storeVars == <<memory, conversation, graph, notes>>

vars == <<agent, workers, tasks, next_id, client, state_manager, orchestrator,
          storeVars>>

(***************************************************************************)
(* Bounds                                                                  *)
(***************************************************************************)
MaxIterations == 2

MaxBatch == 2

(***************************************************************************)
(* Agent state table                                                       *)
(***************************************************************************)
AgentState == {"idle", "thinking", "executing", "waiting_input", "complete", "error"}

VALID_TRANSITIONS ==
  [s \in AgentState |->
     CASE s = "idle"          -> {"thinking", "error"}
       [] s = "thinking"      -> {"executing", "waiting_input", "complete", "error"}
       [] s = "executing"     -> {"thinking", "error"}
       [] s = "waiting_input" -> {"thinking", "complete", "error"}
       [] s = "complete"      -> {"idle"}
       [] s = "error"         -> {"idle"}]

\* can_transition_to that allows every target
can_transition_to_Any(cur, new) == new \in AgentState

can_transition_to(cur, new) == new \in VALID_TRANSITIONS[cur]

\* transition_to: the new current state (unchanged when the table rejects it)
transition_to(cur, new) == IF can_transition_to(cur, new) THEN new ELSE cur

\* bound on the length of the transition log
MaxHistory == 3

StateTransition(from_state, to_state, reason) ==
  [from_state |-> from_state, to_state |-> to_state, reason |-> reason]

\* a fresh AgentStateManager
AgentStateManager == [current_state |-> "idle", history |-> <<>>]

\* reasons a caller may pass; <<>> stands for None
Reasons == {<<>>, <<"why">>}

\* AgentStateManager.transition_to: the value returned and the manager after
state_manager_transition_to(m, new_state, reason) ==
  IF ~can_transition_to(m.current_state, new_state)
    THEN [returned |-> FALSE, m |-> m]
    ELSE [returned |-> TRUE,
          m |-> [current_state |-> new_state,
                 history |-> Append(m.history,
                               StateTransition(m.current_state, new_state, reason))]]

\* force_transition that asks the table first
force_transition_Checked(m, new_state, reason) ==
  state_manager_transition_to(m, new_state,
     IF reason # <<>> THEN <<"FORCED:">> \o reason ELSE <<"FORCED">>).m

\* AgentStateManager.force_transition
force_transition(m, new_state, reason) ==
  [current_state |-> new_state,
   history |-> Append(m.history,
                 StateTransition(m.current_state, new_state,
                    IF reason # <<>> THEN <<"FORCED:">> \o reason ELSE <<"FORCED">>))]

\* reset that leaves the log as it is
reset_KeepsLog(m) == [m EXCEPT !.current_state = "idle"]

\* AgentStateManager.reset
reset(m) == [current_state |-> "idle", history |-> <<>>]

(***************************************************************************)
(* Conversation memory (ConversationMemory).  A text is a sequence of      *)
(* tokens, each a word or the blank " "; tokens are counted the way the    *)
(* code counts them when no tokenizer is installed: 1.3 per word, rounded  *)
(* down.  Ratios are kept in tenths.                                       *)
(***************************************************************************)
\* bound on the length of the history the memory is asked about
MaxMessages == 4

\* max_tokens of the memories that are built: MaxTokens and half of it
MaxTokens == 10

\* recent_to_keep of the memories that are built: 0..MaxRecent
MaxRecent == 2

\* the value None of _cached_summary
NoSummary == <<"None">>

\* truth value of a text or None in a test
Truthy(text) == text # NoSummary /\ text # <<>>

\* ConversationMemory.__init__ with the default ratios 0.8 and 0.6
ConversationMemory(max_tokens, recent_to_keep) ==
  [max_tokens |-> max_tokens, reserve_ratio |-> 8,
   recent_to_keep |-> recent_to_keep, summarize_threshold |-> 6,
   cached_summary |-> NoSummary, summarized_count |-> 0]

\* str.split: the words of a text
Split(text) == SelectSeq(text, LAMBDA t : t # " ")

RECURSIVE Strip(_)
\* str.strip: the text without leading and trailing blanks
Strip(text) ==
  IF text = <<>> THEN text
  ELSE IF Head(text) = " " THEN Strip(Tail(text))
  ELSE IF text[Len(text)] = " " THEN Strip(SubSeq(text, 1, Len(text) - 1))
  ELSE text

\* _count_tokens without tokenizer: int(len(content.split()) * 1.3)
count_tokens(message) == (Len(Split(message.content)) * 13) \div 10

RECURSIVE get_total_tokens(_)
get_total_tokens(msgs) ==
  IF msgs = <<>> THEN 0
  ELSE count_tokens(Head(msgs)) + get_total_tokens(Tail(msgs))

\* token_budget: int(max_tokens * reserve_ratio)
token_budget(m) == (m.max_tokens * m.reserve_ratio) \div 10

\* int(token_budget * summarize_threshold)
threshold_tokens(m) == (token_budget(m) * m.summarize_threshold) \div 10

RECURSIVE truncate_from(_, _, _)
\* the loop of _truncate_to_fit over reversed(messages), total_tokens so far
truncate_from(msgs, budget, total_tokens) ==
  IF msgs = <<>> THEN <<>>
  ELSE LET msg == msgs[Len(msgs)]
           msg_tokens == count_tokens(msg)
       IN IF total_tokens + msg_tokens > budget THEN <<>>
          ELSE Append(truncate_from(SubSeq(msgs, 1, Len(msgs) - 1), budget,
                                    total_tokens + msg_tokens), msg)

\* ConversationMemory._truncate_to_fit
truncate_to_fit(msgs, budget) == truncate_from(msgs, budget, 0)

\* the synthetic system message that carries a summary
SummaryMessage(summary) ==
  [role |-> "system",
   content |-> <<"Previous", " ", "conversation", " ", "summary:", " ">> \o summary]

\* messages[n:] of Python for 0 <= n
From(msgs, n) == SubSeq(msgs, n + 1, Len(msgs))

\* messages[-n:] of Python for 0 <= n: with n = 0 this is the whole list
Last_n(msgs, n) ==
  IF n = 0 \/ n >= Len(msgs) THEN msgs ELSE SubSeq(msgs, Len(msgs) - n + 1, Len(msgs))

\* ConversationMemory.get_messages
get_messages(m, msgs) ==
  IF msgs = <<>> THEN <<>>
  ELSE IF Truthy(m.cached_summary) /\ Len(msgs) > m.summarized_count
    THEN LET result == <<SummaryMessage(m.cached_summary)>>
             recent == From(msgs, m.summarized_count)
         IN result \o truncate_to_fit(recent, token_budget(m) - count_tokens(result[1]))
  ELSE truncate_to_fit(msgs, token_budget(m))

\* Placeholder that does not say how many messages were folded
Placeholder_NoCount(older, e) ==
  <<"[", "earlier", " ", "messages", " ", "-", " ",
    "summarization", " ", "failed:", " ">> \o e \o <<"]">>

\* the text _summarize returns when llm_call raised e
Placeholder(older, e) ==
  <<"[" \o ToString(Len(older)), " ", "earlier", " ", "messages", " ", "-", " ",
    "summarization", " ", "failed:", " ">> \o e \o <<"]">>

\* get_messages_with_summary up to its model call: the list it returns, or
\* the prefix it is about to summarize
get_messages_with_summary(m, msgs) ==
  LET split_point == Len(msgs) - m.recent_to_keep
      older == SubSeq(msgs, 1, split_point)
      recent == Last_n(msgs, m.recent_to_keep)
      returns(result) == [pc |-> "returned", result |-> result, older |-> <<>>,
                          recent |-> <<>>, split_point |-> 0]
  IN IF msgs = <<>> THEN returns(<<>>)
     ELSE IF get_total_tokens(msgs) <= threshold_tokens(m) THEN returns(msgs)
     ELSE IF Len(msgs) <= m.recent_to_keep
       THEN returns(truncate_to_fit(msgs, token_budget(m)))
     ELSE IF split_point <= m.summarized_count /\ Truthy(m.cached_summary)
       THEN returns(<<SummaryMessage(m.cached_summary)>> \o recent)
     ELSE [pc |-> "summarize", result |-> <<>>, older |-> older,
           recent |-> recent, split_point |-> split_point]

\* Summarized that does not cache the summary
Summarized_NoCache(m, c, summary) ==
  [m |-> m, result |-> <<SummaryMessage(summary)>> \o c.recent]

\* get_messages_with_summary from the value of _summarize on: the memory and
\* the list returned
Summarized(m, c, summary) ==
  [m |-> [m EXCEPT !.cached_summary = summary, !.summarized_count = c.split_point],
   result |-> <<SummaryMessage(summary)>> \o c.recent]

\* ConversationMemory.clear_summary_cache
clear_summary_cache(m) ==
  [m EXCEPT !.cached_summary = NoSummary, !.summarized_count = 0]

(***************************************************************************)
(* Shadow graph and notes store before anything was added                  *)
(***************************************************************************)
\* ShadowGraph.__init__: no node, no edge, no note processed
ShadowGraph == [nodes |-> <<>>, edges |-> <<>>, processed_notes |-> {}]

\* no notes file on disk
NoFile == [exists |-> FALSE, valid |-> TRUE, items |-> <<>>]

\* the module's map and file before anything was loaded or saved
NoNotes == [notes |-> <<>>, file |-> NoFile]

\* the stores as they are when nothing has used them
StoreInit ==
  /\ memory = ConversationMemory(MaxTokens, MaxRecent)
  /\ conversation = <<>>
  /\ graph = ShadowGraph
  /\ notes = NoNotes

(***************************************************************************)
(* Completion signal                                                       *)
(***************************************************************************)
TASK_COMPLETE_SIGNAL == "__TASK_COMPLETE__"

StartsWith(s, p) == Len(s) >= Len(p) /\ SubSeq(s, 1, Len(p)) = p

is_task_complete(result) == StartsWith(result, <<TASK_COMPLETE_SIGNAL>>)

extract_completion_summary(result) ==
  IF is_task_complete(result)
    THEN SubSeq(result, Len(<<TASK_COMPLETE_SIGNAL>>) + 2, Len(result))
    ELSE result

\* the finish tool: signal, colon, summary
finish(summary) == <<TASK_COMPLETE_SIGNAL, ":">> \o summary

(***************************************************************************)
(* Agent execution loop (BaseAgent)                                        *)
(***************************************************************************)
\* names of the tools in the agent's tool list; any other name is unknown
AgentTools == {"finish", "terminal", "browser"}

\* the name create_mcp_tool gives the tool run of the MCP server srv
McpTool == "mcp_srv_run"

\* tools whose execute() really suspends (finish has no await inside)
Suspending == {"terminal", "browser", McpTool}

AgentMessage(role, content, tool_calls, tool_results, metadata) ==
  [role |-> role, content |-> content, tool_calls |-> tool_calls,
   tool_results |-> tool_results, metadata |-> metadata]

ToolResult(call, result, error, success) ==
  [tool_call_id |-> call.id, tool_name |-> call.name,
   result |-> result, error |-> error, success |-> success]

NoResponse == [content |-> <<>>, tool_calls |-> <<>>]

\* BaseAgent.__init__
BaseAgent(max_iterations) ==
  [state |-> "idle", conversation_history |-> <<>>, tools |-> AgentTools,
   max_iterations |-> max_iterations, iteration |-> 0, llm_calls |-> 0,
   pc |-> "idle", response |-> NoResponse, tool_calls |-> <<>>,
   results |-> <<>>, out |-> <<>>, seen |-> <<>>, messages |-> <<>>]

\* a yield of _run_loop: the consumer receives msg while the loop stands at
\* the yield, and seen keeps what the agent was at that moment
Yield(a, msg) ==
  [a EXCEPT !.out = Append(@, msg),
            !.seen = Append(@, [state |-> a.state, pc |-> a.pc,
                                results |-> a.results,
                                history |-> a.conversation_history])]

\* AgentMessage.to_llm_format
to_llm_format(msg) ==
  [role |-> msg.role, content |-> msg.content, tool_calls |-> msg.tool_calls,
   tool_call_id |-> 0]

\* ToolResponses that sends result.result whether the call succeeded or not
ToolResponses_ResultOnly(results) ==
  [j \in 1..Len(results) |->
     [role |-> "tool", content |-> results[j].result, tool_calls |-> <<>>,
      tool_call_id |-> results[j].tool_call_id]]

\* the tool response messages of one tool_result message
ToolResponses(results) ==
  [j \in 1..Len(results) |->
     [role |-> "tool",
      content |-> IF results[j].success THEN results[j].result
                  ELSE <<"Error:">> \o results[j].error,
      tool_calls |-> <<>>,
      tool_call_id |-> results[j].tool_call_id]]

RECURSIVE format_messages_for_llm(_)
\* BaseAgent._format_messages_for_llm
format_messages_for_llm(history) ==
  IF history = <<>> THEN <<>>
  ELSE LET msg == Head(history) IN
       (IF msg.role = "tool_result" /\ msg.tool_results # <<>>
          THEN ToolResponses(msg.tool_results)
          ELSE <<to_llm_format(msg)>>)
       \o format_messages_for_llm(Tail(history))

RECURSIVE PopIncomplete(_)
\* the while loop of cleanup_after_cancel over the end of the history
PopIncomplete(history) ==
  IF history = <<>> THEN history
  ELSE LET last_msg == history[Len(history)]
           rest == SubSeq(history, 1, Len(history) - 1)
       IN IF last_msg.role = "assistant" /\ last_msg.tool_calls # <<>>
            THEN PopIncomplete(rest)
          ELSE IF last_msg.role = "tool" THEN PopIncomplete(rest)
          ELSE IF last_msg.role = "user" THEN rest
          ELSE history

\* BaseAgent.cleanup_after_cancel; the loop it cleans up after is gone
cleanup_after_cancel(a) ==
  [a EXCEPT !.conversation_history = PopIncomplete(@),
            !.state = transition_to(@, "idle"),
            !.pc = "cleaned"]

WarningText == <<"[!] Reached maximum iterations">>

\* after the while loop: forced stop with a warning
MaxIterationsReached(a) ==
  LET warning_msg == AgentMessage("assistant", WarningText, <<>>, <<>>,
                                  "max_iterations_reached")
  IN [Yield([a EXCEPT !.conversation_history = Append(@, warning_msg)],
             warning_msg)
        EXCEPT !.state = transition_to(@, "complete"),
               !.pc = "done"]

\* LoopTop with the loop test off by one
LoopTop_OffByOne(a) ==
  IF a.iteration <= a.max_iterations
    THEN [a EXCEPT !.iteration = @ + 1, !.llm_calls = @ + 1, !.pc = "llm",
                   !.messages = format_messages_for_llm(a.conversation_history)]
    ELSE MaxIterationsReached(a)

\* the while test and, when it passes, the start of llm.generate
LoopTop(a) ==
  IF a.iteration < a.max_iterations
    THEN [a EXCEPT !.iteration = @ + 1, !.llm_calls = @ + 1, !.pc = "llm",
                   !.messages = format_messages_for_llm(a.conversation_history)]
    ELSE MaxIterationsReached(a)

run_loop(a) ==
  LoopTop([a EXCEPT !.iteration = 0, !.llm_calls = 0, !.out = <<>>,
                    !.seen = <<>>,
                    !.response = NoResponse, !.tool_calls = <<>>,
                    !.results = <<>>])

agent_loop(a, initial_message) ==
  run_loop([a EXCEPT !.state = transition_to(@, "thinking"),
                     !.conversation_history =
                        Append(@, AgentMessage("user", initial_message,
                                               <<>>, <<>>, "none"))])

continue_conversation(a, user_message) ==
  run_loop([a EXCEPT !.conversation_history =
                        Append(@, AgentMessage("user", user_message,
                                               <<>>, <<>>, "none")),
                     !.state = transition_to(@, "thinking")])

\* index of the first result that carries the completion signal, 0 if none
FirstComplete(results) ==
  LET hits == {i \in 1..Len(results) :
                 /\ results[i].success
                 /\ results[i].result # <<>>
                 /\ is_task_complete(results[i].result)}
  IN IF hits = {} THEN 0 ELSE CHOOSE i \in hits : \A j \in hits : i <= j

\* AfterTools that yields the results before it records the batch
AfterTools_YieldFirst(a) ==
  LET assistant_msg == AgentMessage("assistant", a.response.content,
                                    a.tool_calls, <<>>, "none")
      tool_result_msg == AgentMessage("tool_result", <<>>, <<>>, a.results, "none")
      h == a.conversation_history \o <<assistant_msg, tool_result_msg>>
      k == FirstComplete(a.results)
  IN IF k # 0
       THEN LET summary == extract_completion_summary(a.results[k].result)
                display_msg == AgentMessage("assistant", summary, a.tool_calls,
                                            a.results, "task_complete")
            IN [Yield(a, display_msg)
                  EXCEPT !.conversation_history = h,
                         !.state = transition_to(@, "complete"),
                         !.pc = "done"]
       ELSE LET display_msg == AgentMessage("assistant", a.response.content,
                                            a.tool_calls, a.results, "none")
            IN LoopTop([Yield(a, display_msg)
                          EXCEPT !.conversation_history = h,
                                 !.state = transition_to(@, "thinking")])

\* lines 241-281: record the batch, test for completion, emit
AfterTools(a) ==
  LET assistant_msg == AgentMessage("assistant", a.response.content,
                                    a.tool_calls, <<>>, "none")
      tool_result_msg == AgentMessage("tool_result", <<>>, <<>>, a.results, "none")
      h == a.conversation_history \o <<assistant_msg, tool_result_msg>>
      k == FirstComplete(a.results)
  IN IF k # 0
       THEN LET summary == extract_completion_summary(a.results[k].result)
                display_msg == AgentMessage("assistant", summary, a.tool_calls,
                                            a.results, "task_complete")
            IN [Yield([a EXCEPT !.conversation_history = h], display_msg)
                  EXCEPT !.state = transition_to(@, "complete"),
                         !.pc = "done"]
       ELSE LET display_msg == AgentMessage("assistant", a.response.content,
                                            a.tool_calls, a.results, "none")
            IN LoopTop([Yield([a EXCEPT !.conversation_history = h],
                              display_msg)
                          EXCEPT !.state = transition_to(@, "thinking")])

RECURSIVE execute_tools(_)
\* _execute_tools from the next call on, up to the next await that suspends
execute_tools(a) ==
  LET i == Len(a.results) + 1 IN
  IF i > Len(a.tool_calls) THEN AfterTools(a)
  ELSE LET c == a.tool_calls[i] IN
    IF c.name \notin a.tools
      THEN execute_tools([a EXCEPT !.results =
             Append(@, ToolResult(c, <<>>, <<"Tool", c.name, "not found">>, FALSE))])
    ELSE IF c.name \notin Suspending
      THEN execute_tools([a EXCEPT !.results =
             Append(@, ToolResult(c, finish(<<"summary">>), <<>>, TRUE))])
    ELSE [a EXCEPT !.pc = "tool"]

\* the awaited tool.execute returns a string
ToolReturns(a, result) ==
  LET c == a.tool_calls[Len(a.results) + 1]
  IN execute_tools([a EXCEPT !.results = Append(@, ToolResult(c, result, <<>>, TRUE))])

\* ToolRaises where the exception ends the batch
ToolRaises_Aborts(a, error) ==
  LET c == a.tool_calls[Len(a.results) + 1]
  IN AfterTools([a EXCEPT !.results = Append(@, ToolResult(c, <<>>, error, FALSE))])

\* the awaited tool.execute raises an Exception
ToolRaises(a, error) ==
  LET c == a.tool_calls[Len(a.results) + 1]
  IN execute_tools([a EXCEPT !.results = Append(@, ToolResult(c, <<>>, error, FALSE))])

\* OnResponse where a text-only response is taken as the final answer
OnResponse_TextEnds(a, response) ==
  IF response.tool_calls # <<>>
    THEN LET early_msg == AgentMessage("assistant", response.content,
                                       response.tool_calls, <<>>, "none")
             calls == [a EXCEPT !.response = response,
                                !.tool_calls = response.tool_calls,
                                !.results = <<>>]
         IN execute_tools([Yield(calls, early_msg)
                             EXCEPT !.state = transition_to(@, "executing")])
    ELSE IF response.content # <<>>
      THEN LET thinking_msg == AgentMessage("assistant", response.content,
                                            <<>>, <<>>, "intermediate")
           IN [Yield([a EXCEPT !.response = response,
                                  !.conversation_history = Append(@, thinking_msg)],
                     thinking_msg)
                 EXCEPT !.state = transition_to(@, "complete"),
                        !.pc = "done"]
      ELSE LoopTop([a EXCEPT !.response = response])

\* OnResponse that records the assistant message before the tools run
OnResponse_RecordsFirst(a, response) ==
  IF response.tool_calls # <<>>
    THEN LET early_msg == AgentMessage("assistant", response.content,
                                       response.tool_calls, <<>>, "none")
             calls == [a EXCEPT !.response = response,
                                !.tool_calls = response.tool_calls,
                                !.results = <<>>,
                                !.conversation_history = Append(@, early_msg)]
         IN execute_tools([Yield(calls, early_msg)
                             EXCEPT !.state = transition_to(@, "executing")])
    ELSE IF response.content # <<>>
      THEN LET thinking_msg == AgentMessage("assistant", response.content,
                                            <<>>, <<>>, "intermediate")
           IN LoopTop(Yield([a EXCEPT !.response = response,
                                        !.conversation_history =
                                           Append(@, thinking_msg)],
                            thinking_msg))
      ELSE LoopTop([a EXCEPT !.response = response])

\* llm.generate returns
OnResponse(a, response) ==
  IF response.tool_calls # <<>>
    THEN LET early_msg == AgentMessage("assistant", response.content,
                                       response.tool_calls, <<>>, "none")
             calls == [a EXCEPT !.response = response,
                                !.tool_calls = response.tool_calls,
                                !.results = <<>>]
         IN execute_tools([Yield(calls, early_msg)
                             EXCEPT !.state = transition_to(@, "executing")])
    ELSE IF response.content # <<>>
      THEN LET thinking_msg == AgentMessage("assistant", response.content,
                                            <<>>, <<>>, "intermediate")
           IN LoopTop(Yield([a EXCEPT !.response = response,
                                        !.conversation_history =
                                           Append(@, thinking_msg)],
                            thinking_msg))
      ELSE LoopTop([a EXCEPT !.response = response])

\* llm.generate raises: nothing in _run_loop catches it
OnModelError(a) == [a EXCEPT !.pc = "raised"]

\* LocalRuntime.execute_command: the output of a command that ran
CommandOutput == <<"Command:", "stdout">>

\* LocalRuntime.execute_command catches CancelledError and returns this
CommandCancelled == <<"Command:", "Command cancelled">>

\* CancelledError thrown into the loop at its current await
OnCancelled(a) ==
  IF a.pc = "tool" /\ a.tool_calls[Len(a.results) + 1].name = "terminal"
    THEN ToolReturns(a, CommandCancelled)
    ELSE [a EXCEPT !.pc = "cancelled"]

(***************************************************************************)
(* One agent driven directly by agent_loop or continue_conversation        *)
(***************************************************************************)
\* names a model response may use: the agent's tools and an unregistered one
ToolNames == AgentTools \cup {"nmap"}

Contents == {<<>>, <<"text">>}

\* tool-call lists of a response: the model gives each call its id
Batches ==
  UNION {{[i \in 1..n |-> [id |-> i, name |-> f[i]]] : f \in [1..n -> ToolNames]}
           : n \in 0..MaxBatch}

Responses == [content : Contents, tool_calls : Batches]

\* text items an MCP server may answer a call with
McpItems == {<<"text">>, <<TASK_COMPLETE_SIGNAL, ":", "text">>}

\* execute_mcp for a list result of text items: the texts joined by newlines
execute_mcp(result) ==
  IF Len(result) = 1 THEN result[1]
  ELSE result[1] \o <<"\n">> \o result[2]

\* what an awaited tool can return
ToolOutputs(name) ==
  IF name = "terminal" THEN {CommandOutput}
  ELSE IF name = McpTool
    THEN {execute_mcp(<<t>>) : t \in McpItems}
           \cup {execute_mcp(<<<<"text">>, t>>) : t \in McpItems}
  ELSE {<<"page">>}

\* a crew orchestrator before its first run
CrewOrchestrator ==
  [state |-> "idle", messages |-> <<>>, pc |-> "idle", iteration |-> 0,
   responses |-> 0, final_report |-> <<>>, response |-> NoResponse,
   results |-> <<>>, phase |-> "none", c |-> <<>>]

poolVars ==
  <<workers, tasks, next_id, client, state_manager, orchestrator, storeVars>>

PoolInit ==
  /\ workers = <<>>
  /\ tasks = <<>>
  /\ next_id = 0
  /\ client = [op |-> "none", id |-> 0, was |-> "none", ret |-> "none"]
  /\ state_manager = AgentStateManager
  /\ orchestrator = CrewOrchestrator
  /\ StoreInit

Init ==
  /\ agent \in {BaseAgent(m) : m \in 0..MaxIterations}
  /\ PoolInit

AgentLoop ==
  /\ agent.pc = "idle"
  /\ agent' = agent_loop(agent, <<"task">>)
  /\ UNCHANGED poolVars

ContinueConversation ==
  /\ agent.pc = "idle"
  /\ agent' = continue_conversation(agent, <<"more">>)
  /\ UNCHANGED poolVars

ModelResponds ==
  /\ agent.pc = "llm"
  /\ \E r \in Responses : agent' = OnResponse(agent, r)
  /\ UNCHANGED poolVars

ModelRaises ==
  /\ agent.pc = "llm"
  /\ agent' = OnModelError(agent)
  /\ UNCHANGED poolVars

ToolReturn ==
  /\ agent.pc = "tool"
  /\ \E r \in ToolOutputs(agent.tool_calls[Len(agent.results) + 1].name) :
        agent' = ToolReturns(agent, r)
  /\ UNCHANGED poolVars

ToolRaise ==
  /\ agent.pc = "tool"
  /\ agent' = ToolRaises(agent, <<"boom">>)
  /\ UNCHANGED poolVars

\* the task driving the loop is cancelled while the loop is suspended
CancelLoop ==
  /\ agent.pc \in {"llm", "tool"}
  /\ agent' = OnCancelled(agent)
  /\ UNCHANGED poolVars

\* cleanup_after_cancel, called once the loop is not running any more
CleanupAfterCancel ==
  /\ agent.pc \in {"idle", "done", "raised", "cancelled"}
  /\ agent' = cleanup_after_cancel(agent)
  /\ UNCHANGED poolVars

Next ==
  \/ AgentLoop
  \/ ContinueConversation
  \/ ModelResponds
  \/ ModelRaises
  \/ ToolReturn
  \/ ToolRaise
  \/ CancelLoop
  \/ CleanupAfterCancel

Spec == Init /\ [][Next]_vars

(***************************************************************************)
(* One agent whose tool list also holds a tool of an MCP server            *)
(***************************************************************************)
\* tool-call lists the model may send to this agent
McpBatches ==
  UNION {{[i \in 1..n |-> [id |-> i, name |-> f[i]]]
            : f \in [1..n -> {"finish", "terminal", McpTool}]}
           : n \in 1..MaxBatch}

InitTools ==
  /\ agent \in {[BaseAgent(m) EXCEPT !.tools = AgentTools \cup {McpTool}]
                  : m \in 1..MaxIterations}
  /\ PoolInit

ModelAsks ==
  /\ agent.pc = "llm"
  /\ \E calls \in McpBatches :
        agent' = OnResponse(agent, [content |-> <<>>, tool_calls |-> calls])
  /\ UNCHANGED poolVars

NextTools ==
  \/ AgentLoop
  \/ ModelAsks
  \/ ToolReturn
  \/ ToolRaise

SpecTools == InitTools /\ [][NextTools]_vars

(***************************************************************************)
(* One agent run several times: a run may start when no run is under way,  *)
(* also after an earlier run has returned or raised.  client counts the    *)
(* runs and keeps how the one before ended.                                *)
(***************************************************************************)
MaxRuns == 2

\* responses of the model in these runs: text, or one call
RunResponses ==
  {[content |-> <<"text">>, tool_calls |-> <<>>]}
    \cup {[content |-> <<>>, tool_calls |-> <<[id |-> 1, name |-> n]>>]
             : n \in {"finish", "terminal"}}

\* how the run before ended
Ended(a) ==
  IF a.pc = "raised" THEN "exception"
  ELSE IF a.pc = "idle" THEN "none"
  ELSE a.out[Len(a.out)].metadata

InitRuns ==
  /\ agent \in {BaseAgent(m) : m \in 1..MaxIterations}
  /\ workers = <<>>
  /\ tasks = <<>>
  /\ next_id = 0
  /\ client = [runs |-> 0, before |-> "none"]
  /\ state_manager = AgentStateManager
  /\ orchestrator = CrewOrchestrator
  /\ StoreInit

RunAgentLoop ==
  /\ agent.pc \in {"idle", "done", "raised"}
  /\ client.runs < MaxRuns
  /\ agent' = agent_loop(agent, <<"task">>)
  /\ client' = [runs |-> client.runs + 1, before |-> Ended(agent)]
  /\ UNCHANGED <<workers, tasks, next_id, state_manager, orchestrator, storeVars>>

RunContinueConversation ==
  /\ agent.pc \in {"idle", "done", "raised"}
  /\ client.runs < MaxRuns
  /\ agent' = continue_conversation(agent, <<"more">>)
  /\ client' = [runs |-> client.runs + 1, before |-> Ended(agent)]
  /\ UNCHANGED <<workers, tasks, next_id, state_manager, orchestrator, storeVars>>

RunModelResponds ==
  /\ agent.pc = "llm"
  /\ \E r \in RunResponses : agent' = OnResponse(agent, r)
  /\ UNCHANGED poolVars

NextRuns ==
  \/ RunAgentLoop
  \/ RunContinueConversation
  \/ RunModelResponds
  \/ ModelRaises
  \/ ToolReturn
  \/ ToolRaise

SpecRuns == InitRuns /\ [][NextRuns]_vars

(***************************************************************************)
(* Worker pool (WorkerPool): each worker is one asyncio task running       *)
(* _run_worker.  A task record holds the coroutine's position:             *)
(*   new      created by spawn, first step not yet taken                   *)
(*   depwait  suspended in _wait_for_dependencies on depends_on[k]         *)
(*   loop     suspended inside agent.agent_loop (model call or tool)       *)
(*   stop     suspended inside worker_runtime.stop() in the finally block  *)
(*   done     the task has settled; outcome is how                         *)
(***************************************************************************)
MaxWorkers == 2

MaxDeps == 2

\* the constant _run_worker imports for the workers' iteration cap
WORKER_MAX_ITERATIONS == 1

\* members of the AgentStatus enumeration
AgentStatus == {"pending", "running", "complete", "error", "cancelled"}

Ids == 0..(MaxWorkers - 1)

\* AgentWorker as spawn records it
AgentWorker(depends_on) ==
  [depends_on |-> depends_on, status |-> "pending", result |-> <<>>,
   error |-> <<>>, tools_used |-> <<>>, events |-> <<"spawn">>]

NoAgent == BaseAgent(0)

\* the task asyncio.create_task makes for _run_worker
NewTask ==
  [pc |-> "new", k |-> 0, must_cancel |-> FALSE, outcome |-> "none",
   unwinding |-> "none", runtime |-> "none", browser |-> FALSE,
   agent |-> NoAgent, final_response |-> <<>>, hit_max_iterations |-> FALSE]

\* WorkerPool._emit
Emit(p, event) == [p EXCEPT !.w.events = Append(@, event)]

\* the task is done: its frame and the agent it owned are gone
Settle(p, outcome) ==
  [p EXCEPT !.t.pc = "done", !.t.outcome = outcome, !.t.k = 0,
            !.t.must_cancel = FALSE, !.t.unwinding = "none",
            !.t.agent = NoAgent, !.t.final_response = <<>>,
            !.t.hit_max_iterations = FALSE]

RECURSIVE TrackTools(_, _)
\* lines 128-132: record every distinct tool name, emitting a tool event
TrackTools(p, calls) ==
  IF calls = <<>> THEN p
  ELSE LET name == Head(calls).name IN
       IF \E i \in 1..Len(p.w.tools_used) : p.w.tools_used[i] = name
         THEN TrackTools(p, Tail(calls))
         ELSE TrackTools(Emit([p EXCEPT !.w.tools_used = Append(@, name)], "tool"),
                         Tail(calls))

RECURSIVE Consume(_, _)
\* the body of the async for over agent_loop, for each message yielded
Consume(p, msgs) ==
  IF msgs = <<>> THEN p
  ELSE LET response == Head(msgs)
           p1 == TrackTools(p, response.tool_calls)
           p2 == IF response.content # <<>> /\ response.tool_calls = <<>>
                   THEN [p1 EXCEPT !.t.final_response = response.content]
                   ELSE p1
           p3 == IF response.metadata = "max_iterations_reached"
                   THEN [p2 EXCEPT !.t.hit_max_iterations = TRUE]
                   ELSE p2
       IN Consume(p3, Tail(msgs))

\* ExceptException that records the error but leaves the status as it was
ExceptException_KeepsStatus(p, e) ==
  Emit([p EXCEPT !.w.error = e], "error")

\* except Exception (lines 180-184)
ExceptException(p, e) ==
  Emit([p EXCEPT !.w.error = e, !.w.status = "error"], "error")

\* except asyncio.CancelledError (lines 174-178), before the re-raise
ExceptCancelled(p) ==
  Emit([p EXCEPT !.w.status = "cancelled"], "cancelled")

\* lines 150-172: the loop is exhausted; inside the try block
LoopFinished(p) ==
  LET result == IF p.t.final_response # <<>> THEN p.t.final_response
                ELSE <<"No findings.">>
      p1 == [p EXCEPT !.w.result = result]
  IN IF p.t.hit_max_iterations
       THEN IF "warning" \in AgentStatus
              THEN Emit([p1 EXCEPT !.w.status = "warning"], "warning")
              ELSE ExceptException(p1, <<"WARNING">>)
       ELSE Emit([p1 EXCEPT !.w.status = "complete"], "complete")

\* finally (lines 186-191): stop() suspends only when browser resources exist
Finally(p, unwinding) ==
  IF p.t.browser
    THEN [p EXCEPT !.t.pc = "stop", !.t.unwinding = unwinding,
                   !.t.agent = NoAgent, !.t.final_response = <<>>,
                   !.t.hit_max_iterations = FALSE]
    ELSE Settle([p EXCEPT !.t.runtime = "stopped"],
                IF unwinding = "cancelled" THEN "cancelled" ELSE "returned")

\* what a worker's task keeps of its agent between steps: the pool reads
\* nothing of the agent but the messages the loop yields, so the history and
\* the messages already consumed are left out of the task record
Forget(a) ==
  [a EXCEPT !.conversation_history = <<>>, !.out = <<>>, !.seen = <<>>,
            !.messages = <<>>]

\* the worker's coroutine after a step a of its agent loop that began at a0
AfterLoopStep(p, a0, a) ==
  LET p1 == Consume([p EXCEPT !.t.agent = Forget(a), !.t.pc = "loop"],
                    SubSeq(a.out, Len(a0.out) + 1, Len(a.out)))
  IN CASE a.pc = "done"      -> Finally(LoopFinished(p1), "none")
       [] a.pc = "raised"    -> Finally(ExceptException(p1, <<"model error">>), "none")
       [] a.pc = "cancelled" -> Finally(ExceptCancelled(p1), "cancelled")
       [] OTHER ->
            IF a.pc = "tool" /\ a.tool_calls[Len(a.results) + 1].name = "browser"
              THEN [p1 EXCEPT !.t.browser = TRUE]
              ELSE p1

\* lines 102-126: running, isolated runtime, agent, first model call
BecomeRunning(p, setup_ok) ==
  LET p1 == Emit([p EXCEPT !.w.status = "running", !.t.runtime = "running"],
                 "status")
  IN IF ~setup_ok
       THEN Settle(p1, "raised")
       ELSE AfterLoopStep(p1, NoAgent,
                          agent_loop(BaseAgent(WORKER_MAX_ITERATIONS), <<"task">>))

\* wait_for_dependencies that does not await the tasks it finds
wait_for_dependencies_NoAwait(p, id, k, ts, setup_ok) ==
  BecomeRunning(p, setup_ok)

RECURSIVE wait_for_dependencies(_, _, _, _, _)
\* _wait_for_dependencies from depends_on[k] on, then the rest of _run_worker
wait_for_dependencies(p, id, k, ts, setup_ok) ==
  IF k > Len(p.w.depends_on) THEN BecomeRunning(p, setup_ok)
  ELSE LET dep_id == p.w.depends_on[k] IN
       IF dep_id \notin DOMAIN ts
         THEN wait_for_dependencies(p, id, k + 1, ts, setup_ok)
       ELSE IF dep_id # id /\ ts[dep_id].pc = "done"
         THEN wait_for_dependencies(p, id, k + 1, ts, setup_ok)
       ELSE [p EXCEPT !.t.pc = "depwait", !.t.k = k]

\* the dependency a suspended worker awaits has settled (awaiting itself
\* raises RuntimeError into the worker at once)
DepReady(id, ts, ws) ==
  LET dep_id == ws[id].depends_on[ts[id].k]
  IN dep_id = id \/ ts[dep_id].pc = "done"

RECURSIVE TaskCancel(_, _, _, _)
\* asyncio Task.cancel(): [ok, raised, tasks]
TaskCancel(ts, ws, id, visited) ==
  LET t == ts[id]
      flag == [ok |-> TRUE, raised |-> FALSE,
               tasks |-> [ts EXCEPT ![id].must_cancel = TRUE]]
  IN IF t.pc = "done" THEN [ok |-> FALSE, raised |-> FALSE, tasks |-> ts]
     ELSE IF t.pc = "depwait" /\ ~DepReady(id, ts, ws)
       THEN LET dep_id == ws[id].depends_on[t.k] IN
            IF dep_id \in visited
              THEN [ok |-> FALSE, raised |-> TRUE, tasks |-> ts]
              ELSE LET r == TaskCancel(ts, ws, dep_id, visited \cup {id})
                   IN IF r.ok \/ r.raised THEN r ELSE flag
     ELSE flag

RECURSIVE CancelEach(_, _, _)
\* the first loop of cancel_all: task.cancel() on every task that is not
\* done, in the order of the dict; an exception ends the loop: [raised, tasks]
CancelEach(ts, ws, ids) ==
  IF ids = <<>> THEN [raised |-> FALSE, tasks |-> ts]
  ELSE LET r == TaskCancel(ts, ws, Head(ids), {})
       IN IF r.raised THEN [raised |-> TRUE, tasks |-> r.tasks]
          ELSE CancelEach(r.tasks, ws, Tail(ids))

\* the keys of _tasks, in insertion order
TaskIds(ts) == [i \in 1..Cardinality(DOMAIN ts) |-> i - 1]

\* gather over the tasks named in ids has every result
Gathered(ts, ids) == \A i \in 1..Len(ids) : ts[ids[i]].pc = "done"

\* the dict wait_for builds for one worker
Snapshot(ws, agent_id) ==
  [task |-> agent_id, status |-> ws[agent_id].status,
   result |-> ws[agent_id].result, error |-> ws[agent_id].error,
   tools_used |-> ws[agent_id].tools_used]

Put(dict, key, value) ==
  [x \in DOMAIN dict \cup {key} |-> IF x = key THEN value ELSE dict[x]]

\* Awaited that never waits
Awaited_NoWait(ts, agent_id) == TRUE

\* await self._tasks[agent_id] has returned or raised
Awaited(ts, agent_id) == ts[agent_id].pc = "done"

RECURSIVE wait_for(_, _, _)
\* WorkerPool.wait_for from agent_ids[k] on, for the call recorded in c
wait_for(c, ts, ws) ==
  IF c.k > Len(c.ids) THEN [c EXCEPT !.op = "none", !.ret = "returned"]
  ELSE LET agent_id == c.ids[c.k] IN
       IF agent_id \notin DOMAIN ts
         THEN wait_for([c EXCEPT !.k = @ + 1], ts, ws)
       ELSE IF ~Awaited(ts, agent_id)
         THEN [c EXCEPT !.op = "wait_for"]
       ELSE wait_for([c EXCEPT !.k = @ + 1,
                               !.results = Put(@, agent_id, Snapshot(ws, agent_id))],
                     ts, ws)

\* one entry of the text synthesize_findings puts together
Entry(task, body) == [task |-> task, body |-> body]

RECURSIVE results_text(_, _)
\* lines 89-94 of synthesize_findings_fn, over the workers from id on
results_text(ws, id) ==
  IF id \notin DOMAIN ws THEN <<>>
  ELSE (IF ws[id].result # <<>> THEN <<Entry(id, ws[id].result)>>
        ELSE IF ws[id].error # <<>> THEN <<Entry(id, <<"Error:">> \o ws[id].error)>>
        ELSE <<>>)
       \o results_text(ws, id + 1)

\* synthesize_findings_fn up to its model call: what it returns without one
\* (<<>> when it goes on to the call) and the entries of the prompt it sends
synthesize_findings_fn(ws) ==
  IF DOMAIN ws = {} THEN [returned |-> <<"No agents have run yet.">>, prompt |-> <<>>]
  ELSE IF results_text(ws, 0) = <<>>
    THEN [returned |-> <<"No results to synthesize.">>, prompt |-> <<>>]
  ELSE [returned |-> <<>>, prompt |-> results_text(ws, 0)]

(***************************************************************************)
(* The pool driven by one caller (the orchestrator's tools) and the model  *)
(***************************************************************************)
\* depends_on lists a caller may pass: at most MaxDeps ids among ghost-0 ..
\* ghost-(MaxDeps-1), whether spawned earlier, later, never, or the worker itself
DependsOn ==
  {d \in UNION {[1..n -> 0..(MaxDeps - 1)] : n \in 0..MaxDeps} :
     \A i \in 1..(Len(d) - 1) : d[i] < d[i + 1]}

\* model responses to a worker: text only, or one call of one of its tools
WorkerResponses ==
  {[content |-> <<"text">>, tool_calls |-> <<>>]}
    \cup {[content |-> <<>>, tool_calls |-> <<[id |-> 1, name |-> n]>>] : n \in AgentTools}

\* the caller of cancel: op is "cancel" while it awaits the task; was is the
\* worker's status when the call was made, ret what the last call returned
Idle ==
  [op |-> "none", call |-> "none", id |-> 0, was |-> "none", ret |-> "none",
   ids |-> <<>>, k |-> 0, results |-> <<>>]

\* stands for agent_ids = None
None == <<-1>>

\* agent_ids a caller may pass to wait_for
WaitLists == DependsOn \cup {None}

InitPool ==
  /\ agent = NoAgent
  /\ workers = <<>>
  /\ tasks = <<>>
  /\ next_id = 0
  /\ client = Idle
  /\ state_manager = AgentStateManager
  /\ orchestrator = CrewOrchestrator
  /\ StoreInit

Pair(id) == [w |-> workers[id], t |-> tasks[id]]

\* write back the worker and task a step of worker id produced
Store(id, p) ==
  /\ workers' = [workers EXCEPT ![id] = p.w]
  /\ tasks' = [tasks EXCEPT ![id] = p.t]
  /\ UNCHANGED <<agent, next_id, client, state_manager, orchestrator, storeVars>>

\* WorkerPool.spawn (lock uncontended: no suspension)
Spawn ==
  /\ client.op = "none"
  /\ next_id < MaxWorkers
  /\ \E depends_on \in DependsOn :
       LET worker_id == next_id IN
       /\ workers' = [i \in 0..worker_id |->
                        IF i = worker_id THEN AgentWorker(depends_on) ELSE workers[i]]
       /\ tasks' = [i \in 0..worker_id |->
                        IF i = worker_id THEN NewTask ELSE tasks[i]]
       /\ next_id' = next_id + 1
  /\ UNCHANGED <<agent, client, state_manager, orchestrator, storeVars>>

\* first step of the task: a cancel requested before it throws CancelledError
\* into the unstarted coroutine, otherwise _run_worker runs to its first await
StartWorker ==
  \E id \in DOMAIN tasks :
    /\ tasks[id].pc = "new"
    /\ IF tasks[id].must_cancel
         THEN Store(id, Settle(Pair(id), "cancelled"))
         ELSE \E setup_ok \in BOOLEAN :
                Store(id, wait_for_dependencies(Pair(id), id, 1, tasks, setup_ok))

\* the awaited dependency settled: whatever it raises (also a CancelledError
\* meant for this worker) is swallowed, and the wait goes on
ResumeWorker ==
  \E id \in DOMAIN tasks :
    /\ tasks[id].pc = "depwait"
    /\ DepReady(id, tasks, workers)
    /\ \E setup_ok \in BOOLEAN :
         Store(id, wait_for_dependencies(
                     [Pair(id) EXCEPT !.t.must_cancel = FALSE, !.t.pc = "new"],
                     id, tasks[id].k + 1, tasks, setup_ok))

InLoop(id, pc) ==
  /\ tasks[id].pc = "loop"
  /\ tasks[id].agent.pc = pc
  /\ ~tasks[id].must_cancel

WorkerModelResponds ==
  \E id \in DOMAIN tasks :
    /\ InLoop(id, "llm")
    /\ \E r \in WorkerResponses :
         Store(id, AfterLoopStep(Pair(id), tasks[id].agent,
                                 OnResponse(tasks[id].agent, r)))

\* llm.generate raises inside the loop of worker id
ModelRaisesIn(id) ==
  /\ InLoop(id, "llm")
  /\ Store(id, AfterLoopStep(Pair(id), tasks[id].agent,
                             OnModelError(tasks[id].agent)))

WorkerModelRaises == \E id \in DOMAIN tasks : ModelRaisesIn(id)

WorkerToolReturns ==
  \E id \in DOMAIN tasks :
    /\ InLoop(id, "tool")
    /\ \E r \in ToolOutputs(tasks[id].agent.tool_calls[
                              Len(tasks[id].agent.results) + 1].name) :
         Store(id, AfterLoopStep(Pair(id), tasks[id].agent,
                                 ToolReturns(tasks[id].agent, r)))

\* CancelledError is thrown into the worker at the await of its agent loop
WorkerCancelled ==
  \E id \in DOMAIN tasks :
    /\ tasks[id].pc = "loop"
    /\ tasks[id].must_cancel
    /\ Store(id, AfterLoopStep([Pair(id) EXCEPT !.t.must_cancel = FALSE],
                               tasks[id].agent, OnCancelled(tasks[id].agent)))

\* worker_runtime.stop() returns, or raises an Exception that is swallowed
WorkerStopEnds ==
  \E id \in DOMAIN tasks :
    /\ tasks[id].pc = "stop"
    /\ ~tasks[id].must_cancel
    /\ \E how \in {"stopped", "stop_failed"} :
         Store(id, Settle([Pair(id) EXCEPT !.t.runtime = how],
                          IF tasks[id].unwinding = "cancelled"
                            THEN "cancelled" ELSE "returned"))

\* WorkerStopCancelled that takes the cancellation as the worker's outcome
StopCancelled_MarksCancelled(p) ==
  Settle(ExceptCancelled([p EXCEPT !.t.runtime = "stop_interrupted"]), "cancelled")

\* CancelledError out of stop() in the finally block: nothing catches it
StopCancelled(p) ==
  Settle([p EXCEPT !.t.runtime = "stop_interrupted"], "cancelled")

\* CancelledError lands inside stop(): except Exception does not catch it
WorkerStopCancelled ==
  \E id \in DOMAIN tasks :
    /\ tasks[id].pc = "stop"
    /\ tasks[id].must_cancel
    /\ Store(id, StopCancelled(Pair(id)))

StatusOf(id) == IF id \in DOMAIN workers THEN workers[id].status ELSE "unknown"

\* WorkerPool.cancel up to its await
CancelCall ==
  /\ client.op = "none"
  /\ \E agent_id \in Ids :
       LET returns(v) == [Idle EXCEPT !.call = "cancel", !.id = agent_id,
                                      !.was = StatusOf(agent_id), !.ret = v]
       IN IF agent_id \notin DOMAIN tasks \/ tasks[agent_id].pc = "done"
            THEN /\ client' = returns("false")
                 /\ UNCHANGED tasks
            ELSE LET r == TaskCancel(tasks, workers, agent_id, {}) IN
                 /\ tasks' = r.tasks
                 /\ client' = IF r.raised THEN returns("raised")
                              ELSE [returns("none") EXCEPT !.op = "cancel"]
  /\ UNCHANGED <<agent, workers, next_id, state_manager, orchestrator, storeVars>>

\* WorkerPool.cancel from its await on: the awaited task is done
CancelReturn ==
  /\ client.op = "cancel"
  /\ tasks[client.id].pc = "done"
  /\ client' = [client EXCEPT !.op = "none",
                              !.ret = IF tasks[client.id].outcome = "raised"
                                        THEN "raised" ELSE "true"]
  /\ UNCHANGED <<agent, workers, tasks, next_id, state_manager, orchestrator, storeVars>>

\* WorkerPool.cancel_all up to its gather
CancelAllCall ==
  /\ client.op = "none"
  /\ LET r == CancelEach(tasks, workers, TaskIds(tasks))
         c == [Idle EXCEPT !.call = "cancel_all", !.ids = TaskIds(tasks)]
     IN /\ tasks' = r.tasks
        /\ client' = IF r.raised THEN [c EXCEPT !.ret = "raised"]
                      ELSE IF Gathered(r.tasks, c.ids) THEN [c EXCEPT !.ret = "returned"]
                      ELSE [c EXCEPT !.op = "cancel_all"]
  /\ UNCHANGED <<agent, workers, next_id, state_manager, orchestrator, storeVars>>

\* WorkerPool.cancel_all: the gather has every result
CancelAllReturn ==
  /\ client.op = "cancel_all"
  /\ Gathered(tasks, client.ids)
  /\ client' = [client EXCEPT !.op = "none", !.ret = "returned"]
  /\ UNCHANGED <<agent, workers, tasks, next_id, state_manager, orchestrator, storeVars>>

\* WorkerPool.wait_for up to its first await that suspends
WaitCall ==
  /\ client.op = "none"
  /\ \E agent_ids \in WaitLists :
       client' = wait_for([Idle EXCEPT !.call = "wait_for", !.k = 1,
                                       !.ids = IF agent_ids = None
                                                 THEN TaskIds(tasks) ELSE agent_ids],
                          tasks, workers)
  /\ UNCHANGED <<agent, workers, tasks, next_id, state_manager, orchestrator, storeVars>>

\* WorkerPool.wait_for: the task it awaits has settled
WaitResume ==
  /\ client.op = "wait_for"
  /\ Awaited(tasks, client.ids[client.k])
  /\ client' = wait_for(client, tasks, workers)
  /\ UNCHANGED <<agent, workers, tasks, next_id, state_manager, orchestrator, storeVars>>

\* synthesize_findings_fn over the pool's workers, up to its model call
Synthesize ==
  /\ client.op = "none"
  /\ client' = [Idle EXCEPT !.call = "synthesize_findings",
                            !.results = synthesize_findings_fn(workers).prompt,
                            !.ret = IF synthesize_findings_fn(workers).returned = <<>>
                                      THEN "model" ELSE "returned"]
  /\ UNCHANGED <<agent, workers, tasks, next_id, state_manager, orchestrator, storeVars>>

NextPool ==
  \/ Spawn
  \/ StartWorker
  \/ ResumeWorker
  \/ WorkerModelResponds
  \/ WorkerModelRaises
  \/ WorkerToolReturns
  \/ WorkerCancelled
  \/ WorkerStopEnds
  \/ WorkerStopCancelled
  \/ CancelCall
  \/ CancelReturn
  \/ CancelAllCall
  \/ CancelAllReturn
  \/ WaitCall
  \/ WaitResume
  \/ Synthesize

SpecPool == InitPool /\ [][NextPool]_vars

(***************************************************************************)
(* Progress of the workers.  The event loop runs every task that is ready, *)
(* so a step of a worker that stays possible is taken.  What an agent loop *)
(* does before it ends plays no part in settling: here each loop comes to  *)
(* its end in one step (it returned, returned at the cap, or raised), and  *)
(* stop() comes back.  Nobody cancels: the steps are those of spawn, of    *)
(* the workers and of wait_for.                                            *)
(***************************************************************************)
Endings == {"returned", "capped", "raised"}

\* the async for over agent_loop is over for worker id
WorkerLoopEnds ==
  \E id \in DOMAIN tasks :
    /\ tasks[id].pc = "loop"
    /\ \E ending \in Endings, browser \in BOOLEAN :
         LET p == [Pair(id) EXCEPT !.t.browser = browser,
                                   !.t.final_response = <<"summary">>,
                                   !.t.hit_max_iterations = (ending = "capped")]
         IN Store(id, IF ending = "raised"
                        THEN Finally(ExceptException(p, <<"model error">>), "none")
                        ELSE Finally(LoopFinished(p), "none"))

NextLive ==
  \/ Spawn
  \/ StartWorker
  \/ ResumeWorker
  \/ WorkerLoopEnds
  \/ WorkerStopEnds
  \/ WaitCall
  \/ WaitResume

Fairness ==
  /\ WF_vars(StartWorker)
  /\ WF_vars(ResumeWorker)
  /\ WF_vars(WorkerLoopEnds)
  /\ WF_vars(WorkerStopEnds)
  /\ WF_vars(WaitResume)

SpecLive == InitPool /\ [][NextLive]_vars /\ Fairness

(***************************************************************************)
(* Spawns issued by several callers of one pool, and reset().  spawn has   *)
(* no await inside its lock, so the lock is free whenever a caller asks    *)
(* for it and each call runs from the lock to its return in one step.      *)
(* client keeps what the callers were given since the last reset.          *)
(***************************************************************************)
MaxResets == 1

SpawnCallers == {"orchestrator", "driver"}

\* _generate_id with the increment left out
generate_id_NoIncrement(n) == [worker_id |-> "ghost-" \o ToString(n), next |-> n]

\* WorkerPool._generate_id: the id and the counter after it
generate_id(n) == [worker_id |-> "ghost-" \o ToString(n), next |-> n + 1]

InitSpawn ==
  /\ agent = NoAgent
  /\ workers = <<>>
  /\ tasks = <<>>
  /\ next_id = 0
  /\ client = [returned |-> <<>>, resets |-> 0]
  /\ state_manager = AgentStateManager
  /\ orchestrator = CrewOrchestrator
  /\ StoreInit

\* WorkerPool.spawn by one of the callers
SpawnCall ==
  /\ next_id < MaxWorkers
  /\ \E caller \in SpawnCallers, depends_on \in DependsOn :
       LET g == generate_id(next_id)
           n == next_id
       IN /\ workers' = [i \in DOMAIN workers \cup {n} |->
                           IF i = n THEN AgentWorker(depends_on) ELSE workers[i]]
          /\ tasks' = [i \in DOMAIN tasks \cup {n} |->
                           IF i = n THEN NewTask ELSE tasks[i]]
          /\ next_id' = g.next
          /\ client' = [client EXCEPT !.returned =
                          Append(@, [caller |-> caller, worker_id |-> g.worker_id,
                                     n |-> n])]
  /\ UNCHANGED <<agent, state_manager, orchestrator, storeVars>>

\* WorkerPool.reset: the pool forgets its workers and tasks (tasks that have
\* not settled go on outside the pool's maps) and the counter starts again
PoolReset ==
  /\ client.resets < MaxResets
  /\ workers' = <<>>
  /\ tasks' = <<>>
  /\ next_id' = 0
  /\ client' = [returned |-> <<>>, resets |-> client.resets + 1]
  /\ UNCHANGED <<agent, state_manager, orchestrator, storeVars>>

NextSpawn ==
  \/ SpawnCall
  \/ StartWorker
  \/ PoolReset

SpecSpawn == InitSpawn /\ [][NextSpawn]_vars

(***************************************************************************)
(* Crew orchestrator (CrewOrchestrator).  run() is a coroutine whose       *)
(* position is orchestrator.pc:                                            *)
(*   idle              run() not called yet                                *)
(*   llm               suspended in llm.generate                           *)
(*   cancel_agent      suspended in pool.cancel, inside the tool           *)
(*   wait_for_agents   suspended in pool.wait_for, inside the tool         *)
(*   synthesize        suspended in the model call of synthesize_findings  *)
(*   finally           suspended in the gather of pool.cancel_all          *)
(*   ended             run() is over                                       *)
(* Its operators work on x = [o, ws, ts, n]: the orchestrator and the      *)
(* pool's workers, tasks and next id.  cancel() is called by the driver of *)
(* the run, recorded in client.                                            *)
(***************************************************************************)
\* the cap on the orchestrator's model calls
DEFAULT_MAX_ITERATIONS == 3

MaxCrewBatch == 2

\* names of the tools create_crew_tools makes
CrewTools ==
  {"spawn_agent", "wait_for_agents", "get_agent_status", "cancel_agent",
   "synthesize_findings"}

\* an entry of _messages; tool_calls holds the ids of the calls
CrewMessage(role, tool_calls, tool_call_id) ==
  [role |-> role, tool_calls |-> tool_calls, tool_call_id |-> tool_call_id]

\* what the run keeps of a tool call once it is dealt with
CrewResult(call, outcome, result) ==
  [name |-> call.name, outcome |-> outcome, result |-> result]

RECURSIVE CrewTrim(_)
\* CrewOrchestrator._cleanup_pending_calls
CrewTrim(messages) ==
  IF messages = <<>> THEN messages
  ELSE LET last_msg == messages[Len(messages)]
           rest == SubSeq(messages, 1, Len(messages) - 1)
       IN IF last_msg.role = "assistant" /\ last_msg.tool_calls # <<>>
            THEN CrewTrim(rest)
          ELSE IF last_msg.role = "tool" THEN CrewTrim(rest)
          ELSE IF last_msg.role = "user" THEN rest
          ELSE messages

\* finally: pool.cancel_all(), up to its gather
CrewFinally(x) ==
  LET r == CancelEach(x.ts, x.ws, TaskIds(x.ts))
      ids == TaskIds(x.ts)
  IN IF r.raised
       THEN [x EXCEPT !.ts = r.tasks, !.o.pc = "ended", !.o.c = <<>>]
     ELSE IF Gathered(r.tasks, ids)
       THEN [x EXCEPT !.ts = r.tasks, !.o.pc = "ended", !.o.c = <<>>]
     ELSE [x EXCEPT !.ts = r.tasks, !.o.pc = "finally", !.o.c = ids]

\* lines 253-254: the loop is left by break or by its test
CrewComplete(x) ==
  CrewFinally([x EXCEPT !.o.state = "complete", !.o.phase = "complete"])

\* except Exception (lines 256-258)
CrewError(x) ==
  CrewFinally([x EXCEPT !.o.state = "error", !.o.phase = "error"])

\* the while test and, when it passes, the start of llm.generate
CrewLoopTop(x) ==
  IF x.o.iteration < DEFAULT_MAX_ITERATIONS
    THEN [x EXCEPT !.o.iteration = @ + 1, !.o.pc = "llm", !.o.c = <<>>]
    ELSE CrewComplete(x)

\* pool.spawn
spawn(x, depends_on) ==
  LET worker_id == x.n IN
  [x EXCEPT !.ws = [i \in 0..worker_id |->
                      IF i = worker_id THEN AgentWorker(depends_on) ELSE x.ws[i]],
            !.ts = [i \in 0..worker_id |->
                      IF i = worker_id THEN NewTask ELSE x.ts[i]],
            !.n = worker_id + 1]

\* the text wait_for_agents_fn makes of what wait_for returned
WaitReport(results) ==
  IF DOMAIN results = {} THEN <<"No agents to wait for.">>
  ELSE <<"##", "Status:">>

RECURSIVE CrewTools_From(_)

\* lines 202-219: tool.execute returned result for the current call
CrewToolReturned(x, result) ==
  LET call == x.o.response.tool_calls[Len(x.o.results) + 1]
  IN CrewTools_From(
       [x EXCEPT !.o.messages = Append(@, CrewMessage("tool", <<>>, call.id)),
                 !.o.results = Append(@, CrewResult(call, "returned", result)),
                 !.o.phase = "tool_result",
                 !.o.final_report = IF call.name = "synthesize_findings"
                                      THEN result ELSE @])

\* CrewToolRaised where the exception leaves the loop
CrewToolRaised_Ends(x) == CrewError(x)

\* lines 221-234: tool.execute raised an Exception for the current call
CrewToolRaised(x) ==
  LET call == x.o.response.tool_calls[Len(x.o.results) + 1]
  IN CrewTools_From(
       [x EXCEPT !.o.messages = Append(@, CrewMessage("tool", <<>>, call.id)),
                 !.o.results = Append(@, CrewResult(call, "raised", <<"Error:">>)),
                 !.o.phase = "tool_result"])

\* lines 192-246: the tool calls of the response from the next one on, up to
\* an await that suspends, and then the test for a final report
CrewTools_From(x) ==
  LET i == Len(x.o.results) + 1 IN
  IF i > Len(x.o.response.tool_calls)
    THEN IF x.o.final_report # <<>> THEN CrewComplete(x) ELSE CrewLoopTop(x)
  ELSE
    LET call == x.o.response.tool_calls[i]
        x1 == [x EXCEPT !.o.phase = "tool_call"]
    IN CASE call.name = "spawn_agent" ->
              CrewToolReturned(spawn(x1, call.arg), <<"Spawned">>)
         [] call.name = "get_agent_status" ->
              CrewToolReturned(x1, <<"status">>)
         [] call.name = "cancel_agent" ->
              LET agent_id == call.arg[1] IN
              IF agent_id \notin DOMAIN x1.ts \/ x1.ts[agent_id].pc = "done"
                THEN CrewToolReturned(x1, <<"Could not cancel">>)
              ELSE LET r == TaskCancel(x1.ts, x1.ws, agent_id, {}) IN
                   IF r.raised THEN CrewToolRaised(x1)
                   ELSE [x1 EXCEPT !.ts = r.tasks, !.o.pc = "cancel_agent",
                                   !.o.c = [Idle EXCEPT !.call = "cancel",
                                                        !.id = agent_id]]
         [] call.name = "wait_for_agents" ->
              LET c == wait_for([Idle EXCEPT !.call = "wait_for", !.k = 1,
                                             !.ids = IF call.arg = None
                                                       THEN TaskIds(x1.ts)
                                                       ELSE call.arg],
                                x1.ts, x1.ws)
              IN IF c.op = "none" THEN CrewToolReturned(x1, WaitReport(c.results))
                 ELSE [x1 EXCEPT !.o.pc = "wait_for_agents", !.o.c = c]
         [] call.name = "synthesize_findings" ->
              LET sf == synthesize_findings_fn(x1.ws) IN
              IF sf.returned # <<>> THEN CrewToolReturned(x1, sf.returned)
              ELSE [x1 EXCEPT !.o.pc = "synthesize", !.o.c = <<>>]
         [] OTHER ->
              CrewTools_From(
                [x EXCEPT !.o.messages = Append(@, CrewMessage("tool", <<>>, call.id)),
                          !.o.results = Append(@, CrewResult(call, "unknown",
                                                             <<"Unknown tool:">>))])

\* lines 137-251: llm.generate returned response
OnCrewResponse(x, response) ==
  LET x1 == [x EXCEPT !.o.response = response, !.o.results = <<>>,
                      !.o.responses = @ + 1]
      x2 == IF response.content # <<>>
              THEN [x1 EXCEPT !.o.phase = "thinking",
                              !.o.messages = Append(@, CrewMessage("assistant", <<>>, 0))]
              ELSE x1
  IN IF response.tool_calls # <<>>
       THEN CrewTools_From(
              [x2 EXCEPT !.o.messages =
                 Append(@, CrewMessage("assistant",
                                       [j \in 1..Len(response.tool_calls) |->
                                          response.tool_calls[j].id], 0))])
     ELSE IF response.content # <<>>
       THEN CrewComplete([x2 EXCEPT !.o.final_report = response.content])
     ELSE CrewLoopTop(x2)

\* CrewOrchestrator.run up to its first model call, with a new pool
run(x) ==
  CrewLoopTop([x EXCEPT !.o.state = "running", !.o.phase = "starting",
                        !.o.messages = <<CrewMessage("user", <<>>, 0)>>,
                        !.o.iteration = 0, !.o.final_report = <<>>,
                        !.ws = <<>>, !.ts = <<>>, !.n = 0])

\* CrewOrchestrator.cancel after pool.cancel_all
cancel(o) == [o EXCEPT !.messages = CrewTrim(@), !.state = "idle"]

(***************************************************************************)
(* The orchestrator, its pool and the driver of the run                    *)
(***************************************************************************)
\* bound on the tool calls the orchestrator executes in one run
MaxCrewCalls == 3

\* tool calls the model may ask the orchestrator for, with their arguments:
\* spawn_agent without dependencies, wait_for_agents for all workers,
\* cancel_agent for ghost-0; nmap is not a tool of the orchestrator
CrewCalls ==
  {[name |-> "spawn_agent", arg |-> d] : d \in {<<>>}}
    \cup {[name |-> "wait_for_agents", arg |-> l] : l \in {None}}
    \cup {[name |-> "cancel_agent", arg |-> <<i>>] : i \in {0}}
    \cup {[name |-> n, arg |-> <<>>] :
            n \in {"get_agent_status", "synthesize_findings", "nmap"}}

CrewBatches ==
  UNION {{[i \in 1..n |-> [id |-> i, name |-> f[i].name, arg |-> f[i].arg]]
            : f \in [1..n -> CrewCalls]} : n \in 0..MaxCrewBatch}

CrewResponses == [content : Contents, tool_calls : CrewBatches]

\* spawn_agent calls in a batch
Spawns(tool_calls) ==
  Cardinality({j \in 1..Len(tool_calls) : tool_calls[j].name = "spawn_agent"})

X == [o |-> orchestrator, ws |-> workers, ts |-> tasks, n |-> next_id]

\* tool calls the run has dealt with so far
CallsMade(o) ==
  Cardinality({j \in 1..Len(o.messages) : o.messages[j].role = "tool"})

\* write back what a step of the run produced
StoreCrew(x) ==
  /\ orchestrator' = x.o
  /\ workers' = x.ws
  /\ tasks' = x.ts
  /\ next_id' = x.n
  /\ UNCHANGED <<agent, client, state_manager, storeVars>>

InitCrew ==
  /\ agent = NoAgent
  /\ workers = <<>>
  /\ tasks = <<>>
  /\ next_id = 0
  /\ client = Idle
  /\ state_manager = AgentStateManager
  /\ orchestrator = CrewOrchestrator
  /\ StoreInit

CrewRun ==
  /\ orchestrator.pc = "idle"
  /\ StoreCrew(run(X))

\* the model answers the orchestrator (at most MaxWorkers workers are
\* spawned and at most MaxCrewCalls tool calls executed in a run)
CrewModelResponds ==
  /\ orchestrator.pc = "llm"
  /\ \E response \in CrewResponses :
       /\ next_id + Spawns(response.tool_calls) <= MaxWorkers
       /\ CallsMade(orchestrator) + Len(response.tool_calls) <= MaxCrewCalls
       /\ StoreCrew(OnCrewResponse(X, response))

CrewModelRaises ==
  /\ orchestrator.pc = "llm"
  /\ StoreCrew(CrewError(X))

\* pool.cancel inside cancel_agent: the awaited task is done
CrewCancelAgentResumes ==
  /\ orchestrator.pc = "cancel_agent"
  /\ tasks[orchestrator.c.id].pc = "done"
  /\ StoreCrew(IF tasks[orchestrator.c.id].outcome = "raised"
                 THEN CrewToolRaised(X)
                 ELSE CrewToolReturned(X, <<"Cancelled">>))

\* pool.wait_for inside wait_for_agents: the awaited task is done
CrewWaitResumes ==
  /\ orchestrator.pc = "wait_for_agents"
  /\ Awaited(tasks, orchestrator.c.ids[orchestrator.c.k])
  /\ LET c == wait_for(orchestrator.c, tasks, workers) IN
     StoreCrew(IF c.op = "none" THEN CrewToolReturned(X, WaitReport(c.results))
               ELSE [X EXCEPT !.o.c = c])

\* the model call of synthesize_findings returns its content, or raises
CrewSynthesisEnds ==
  /\ orchestrator.pc = "synthesize"
  /\ \/ \E content \in {<<>>, <<"report">>} : StoreCrew(CrewToolReturned(X, content))
     \/ StoreCrew(CrewToolRaised(X))

\* the gather of the cancel_all in run's finally block has every result
CrewFinallyEnds ==
  /\ orchestrator.pc = "finally"
  /\ Gathered(tasks, orchestrator.c)
  /\ orchestrator' = [orchestrator EXCEPT !.pc = "ended", !.c = <<>>]
  /\ UNCHANGED <<agent, workers, tasks, next_id, client, state_manager, storeVars>>

\* CrewOrchestrator.cancel up to the gather of pool.cancel_all; the driver
\* calls it once, at any moment after run() has started
CrewCancelCall ==
  /\ client.call = "none"
  /\ orchestrator.pc # "idle"
  /\ LET r == CancelEach(tasks, workers, TaskIds(tasks))
         c == [Idle EXCEPT !.call = "cancel_crew", !.ids = TaskIds(tasks)]
     IN /\ tasks' = r.tasks
        /\ IF r.raised
             THEN client' = [c EXCEPT !.ret = "raised"] /\ UNCHANGED orchestrator
           ELSE IF Gathered(r.tasks, c.ids)
             THEN /\ client' = [c EXCEPT !.ret = "returned"]
                  /\ orchestrator' = cancel(orchestrator)
           ELSE client' = [c EXCEPT !.op = "cancel_crew"] /\ UNCHANGED orchestrator
  /\ UNCHANGED <<agent, workers, next_id, state_manager, storeVars>>

\* CrewOrchestrator.cancel from the gather on
CrewCancelReturn ==
  /\ client.op = "cancel_crew"
  /\ Gathered(tasks, client.ids)
  /\ client' = [client EXCEPT !.op = "none", !.ret = "returned"]
  /\ orchestrator' = cancel(orchestrator)
  /\ UNCHANGED <<agent, workers, tasks, next_id, state_manager, storeVars>>

\* the run, its driver and the workers; no worker waits for a dependency, as
\* CrewCalls spawns workers without depends_on
NextCrew ==
  \/ CrewRun
  \/ CrewModelResponds
  \/ CrewModelRaises
  \/ CrewCancelAgentResumes
  \/ CrewWaitResumes
  \/ CrewSynthesisEnds
  \/ CrewFinallyEnds
  \/ CrewCancelCall
  \/ CrewCancelReturn
  \/ StartWorker
  \/ WorkerModelResponds
  \/ WorkerModelRaises
  \/ WorkerToolReturns
  \/ WorkerCancelled
  \/ WorkerStopEnds
  \/ WorkerStopCancelled

SpecCrew == InitCrew /\ [][NextCrew]_vars

(***************************************************************************)
(* The state manager (AgentStateManager) driven by one caller.  client     *)
(* records the last call: its target and reason, the value it returned and *)
(* the manager as it was before the call.                                  *)
(***************************************************************************)
NoCall ==
  [op |-> "none", target |-> "idle", reason |-> <<>>, returned |-> FALSE,
   before |-> AgentStateManager]

InitState ==
  /\ agent = NoAgent
  /\ workers = <<>>
  /\ tasks = <<>>
  /\ next_id = 0
  /\ client = NoCall
  /\ state_manager = AgentStateManager
  /\ orchestrator = CrewOrchestrator
  /\ StoreInit

TransitionTo ==
  /\ Len(state_manager.history) < MaxHistory
  /\ \E new_state \in AgentState : \E reason \in Reasons :
       LET r == state_manager_transition_to(state_manager, new_state, reason) IN
       /\ state_manager' = r.m
       /\ client' = [op |-> "transition_to", target |-> new_state,
                     reason |-> reason, returned |-> r.returned,
                     before |-> state_manager]
  /\ UNCHANGED <<agent, workers, tasks, next_id, orchestrator, storeVars>>

ForceTransition ==
  /\ Len(state_manager.history) < MaxHistory
  /\ \E new_state \in AgentState : \E reason \in Reasons :
       /\ state_manager' = force_transition(state_manager, new_state, reason)
       /\ client' = [op |-> "force_transition", target |-> new_state,
                     reason |-> reason, returned |-> TRUE,
                     before |-> state_manager]
  /\ UNCHANGED <<agent, workers, tasks, next_id, orchestrator, storeVars>>

Reset ==
  /\ state_manager' = reset(state_manager)
  /\ client' = [op |-> "reset", target |-> "idle", reason |-> <<>>,
                returned |-> TRUE, before |-> state_manager]
  /\ UNCHANGED <<agent, workers, tasks, next_id, orchestrator, storeVars>>

NextState ==
  \/ TransitionTo
  \/ ForceTransition
  \/ Reset

SpecState == InitState /\ [][NextState]_vars

(***************************************************************************)
(* The conversation memory driven by one caller, who owns the conversation *)
(* and may add to it or change a message in place between calls.  client   *)
(* records the last call made on the conversation as it is now: the        *)
(* conversation and the memory as they were when it was made, the list it  *)
(* returned, the model calls it made and, while it is suspended in the     *)
(* model call, the prefix being summarized.                                *)
(***************************************************************************)
NoMemoryCall ==
  [op |-> "none", messages |-> <<>>, before |-> ConversationMemory(0, 0),
   result |-> <<>>, llm_calls |-> 0, error |-> <<>>, older |-> <<>>,
   recent |-> <<>>, split_point |-> 0]

\* contents of the messages of a conversation: 1, 3 and 4 words
MessageContents ==
  {<<"a">>, <<"b", " ", "b", " ", "b">>, <<"c", " ", "c", " ", "c", " ", "c">>}

\* what the model may answer when asked for a summary: blank, 1 and 4 words
Summaries ==
  {<<" ">>, <<"s">>, <<" ", "s", " ", "s", " ", "s", " ", "s">>}

InitMemory ==
  /\ agent = NoAgent
  /\ workers = <<>>
  /\ tasks = <<>>
  /\ next_id = 0
  /\ client = NoMemoryCall
  /\ state_manager = AgentStateManager
  /\ orchestrator = CrewOrchestrator
  /\ memory \in {ConversationMemory(max_tokens, recent_to_keep) :
                   max_tokens \in {MaxTokens \div 2, MaxTokens},
                   recent_to_keep \in 0..MaxRecent}
  /\ conversation = <<>>
  /\ graph = ShadowGraph
  /\ notes = NoNotes

\* everything but the memory, its conversation and its caller
notMemory ==
  <<agent, workers, tasks, next_id, state_manager, orchestrator, graph, notes>>

\* the caller appends a message to the conversation
AddMessage ==
  /\ client.op # "summarize"
  /\ Len(conversation) < MaxMessages
  /\ \E content \in MessageContents :
       conversation' =
         Append(conversation,
                [role |-> IF Len(conversation) % 2 = 0 THEN "user" ELSE "assistant",
                 content |-> content])
  /\ client' = NoMemoryCall
  /\ UNCHANGED <<memory, notMemory>>

\* the caller changes the content of a message in place
ChangeMessage ==
  /\ client.op # "summarize"
  /\ \E i \in 1..Len(conversation) :
       \E content \in MessageContents \ {conversation[i].content} :
          conversation' = [conversation EXCEPT ![i].content = content]
  /\ client' = NoMemoryCall
  /\ UNCHANGED <<memory, notMemory>>

GetMessages ==
  /\ client.op # "summarize"
  /\ client' = [NoMemoryCall EXCEPT !.op = "get_messages",
                                    !.messages = conversation,
                                    !.before = memory,
                                    !.result = get_messages(memory, conversation)]
  /\ UNCHANGED <<memory, conversation, notMemory>>

\* get_messages_with_summary up to its return or its model call
GetMessagesWithSummary ==
  /\ client.op # "summarize"
  /\ LET r == get_messages_with_summary(memory, conversation)
         c == [NoMemoryCall EXCEPT !.messages = conversation, !.before = memory]
     IN client' = IF r.pc = "returned"
                    THEN [c EXCEPT !.op = "get_messages_with_summary",
                                   !.result = r.result]
                    ELSE [c EXCEPT !.op = "summarize", !.older = r.older,
                                   !.recent = r.recent,
                                   !.split_point = r.split_point]
  /\ UNCHANGED <<memory, conversation, notMemory>>

\* llm_call returns text: _summarize strips it
SummaryReturns ==
  /\ client.op = "summarize"
  /\ \E text \in Summaries :
       LET r == Summarized(memory, client, Strip(text)) IN
       /\ memory' = r.m
       /\ client' = [client EXCEPT !.op = "get_messages_with_summary",
                                   !.result = r.result, !.llm_calls = 1]
  /\ UNCHANGED <<conversation, notMemory>>

\* llm_call raises an Exception: _summarize returns the placeholder
SummaryRaises ==
  /\ client.op = "summarize"
  /\ \E e \in {<<"boom">>} :
       LET r == Summarized(memory, client, Placeholder(client.older, e)) IN
       /\ memory' = r.m
       /\ client' = [client EXCEPT !.op = "get_messages_with_summary",
                                   !.result = r.result, !.llm_calls = 1,
                                   !.error = e]
  /\ UNCHANGED <<conversation, notMemory>>

ClearSummaryCache ==
  /\ client.op # "summarize"
  /\ memory' = clear_summary_cache(memory)
  /\ client' = [NoMemoryCall EXCEPT !.op = "clear_summary_cache",
                                    !.messages = conversation,
                                    !.before = memory]
  /\ UNCHANGED <<conversation, notMemory>>

NextMemory ==
  \/ AddMessage
  \/ ChangeMessage
  \/ GetMessages
  \/ GetMessagesWithSummary
  \/ SummaryReturns
  \/ SummaryRaises
  \/ ClearSummaryCache

SpecMemory == InitMemory /\ [][NextMemory]_vars

(***************************************************************************)
(* Shadow graph (ShadowGraph): a directed graph derived from notes.  A     *)
(* note's text is a sequence of tokens; the regular expressions of the     *)
(* class are modelled by what they find among the tokens.  Nodes and edges *)
(* are kept in insertion order, as the graph library iterates them.        *)
(***************************************************************************)
MaxHosts == 2

MaxNotes == 2

\* the addresses that notes mention
Addresses == {"10.0.0." \o ToString(i) : i \in 1..MaxHosts}

NoteKeys == {"k" \o ToString(i) : i \in 1..MaxNotes}

\* _ip_pattern.findall(content)
RECURSIVE ip_findall(_)
ip_findall(content) ==
  IF content = <<>> THEN <<>>
  ELSE (IF Head(content) \in Addresses THEN <<Head(content)>> ELSE <<>>)
       \o ip_findall(Tail(content))

\* the (port, protocol) pairs that _port_pattern finds in one token
PortOf(token) ==
  CASE token = "80/tcp" -> <<"80", "tcp">>
    [] token = "53/udp" -> <<"53", "udp">>
    [] OTHER -> <<>>

\* _port_pattern.findall(content)
RECURSIVE port_findall(_)
port_findall(content) ==
  IF content = <<>> THEN <<>>
  ELSE (IF PortOf(Head(content)) # <<>> THEN <<PortOf(Head(content))>> ELSE <<>>)
       \o port_findall(Tail(content))

\* the token after the first token t that has a successor accepted by ok
RECURSIVE SearchAfter(_, _, _)
SearchAfter(content, t, ok) ==
  IF Len(content) < 2 THEN "None"
  ELSE IF content[1] \in t /\ content[2] \in ok THEN content[2]
  ELSE SearchAfter(Tail(content), t, ok)

UserNames == {"root", "admin"}

\* _user_pattern.search(content): the name after "user:" or "username:"
user_search(content) ==
  SearchAfter(content, {"user:", "username:", "Username:"}, UserNames)

\* _source_pattern.search(content): the address after "found on" and the like
source_search(content) ==
  SearchAfter(content, {"found on", "dumped from", "extracted from", "on host"},
              Addresses)

\* re.search(r"CVE-\d{4}-\d{4,7}", content)
RECURSIVE cve_search(_)
cve_search(content) ==
  IF content = <<>> THEN "None"
  ELSE IF Head(content) \in {"CVE-2025-1234"} THEN Head(content)
  ELSE cve_search(Tail(content))

Contains(seq, x) == \E i \in 1..Len(seq) : seq[i] = x

\* graph.has_node
has_node(g, node_id) == \E i \in 1..Len(g.nodes) : g.nodes[i].id = node_id

\* graph.has_edge
has_edge(g, source, target) ==
  \E i \in 1..Len(g.edges) :
     g.edges[i].source = source /\ g.edges[i].target = target

\* ShadowGraph._add_node: add a node if it doesn't exist
add_node(g, node_id, node_type, label) ==
  IF has_node(g, node_id) THEN g
  ELSE [g EXCEPT !.nodes =
          Append(@, [id |-> node_id, type |-> node_type, label |-> label])]

\* ShadowGraph._add_edge: both ends must exist; adding an edge that exists
\* updates the attributes given
add_edge(g, source, target, edge_type, protocol) ==
  IF ~(has_node(g, source) /\ has_node(g, target)) THEN g
  ELSE IF has_edge(g, source, target)
    THEN [g EXCEPT !.edges =
            [i \in 1..Len(@) |->
               IF @[i].source = source /\ @[i].target = target
                 THEN [@[i] EXCEPT !.type = edge_type,
                                   !.protocol = IF protocol = "None"
                                                  THEN @ ELSE protocol]
                 ELSE @[i]]]
    ELSE [g EXCEPT !.edges =
            Append(@, [source |-> source, target |-> target,
                       type |-> edge_type, protocol |-> protocol])]

\* metadata.get(name) is set and not empty
Given(value) == value # "None" /\ value # ""

\* lines 97-120: the hosts of a note, from the metadata or else from the text
related_hosts(content, metadata) ==
  LET from_metadata ==
        (IF Given(metadata.target) THEN <<"host:" \o metadata.target>> ELSE <<>>)
        \o (IF Given(metadata.source) THEN <<"host:" \o metadata.source>> ELSE <<>>)
      ips == ip_findall(content)
  IN IF from_metadata # <<>> THEN from_metadata
     ELSE [i \in 1..Len(ips) |-> "host:" \o ips[i]]

\* the label of the host node host_id
HostLabel(host_id) ==
  CHOOSE ip \in Addresses : "host:" \o ip = host_id

RECURSIVE add_hosts(_, _)
\* lines 100-120: one host node for each host of the note
add_hosts(g, hosts) ==
  IF hosts = <<>> THEN g
  ELSE add_hosts(add_node(g, Head(hosts), "host", HostLabel(Head(hosts))),
                 Tail(hosts))

\* lines 158-167: the host a credential was found on
source_host(content, metadata) ==
  IF Given(metadata.source) THEN "host:" \o metadata.source
  ELSE IF source_search(content) # "None"
    THEN "host:" \o source_search(content)
  ELSE "None"

\* link_host that links the source host as well
link_host_NoSkip(g, cred_id, host_id, source, protocol) ==
  add_edge(g, cred_id, host_id, "AUTH_ACCESS", protocol)

\* lines 175-189, one turn of the loop: AUTH_ACCESS from the credential to
\* the host unless the host is the credential's source
link_host(g, cred_id, host_id, source, protocol) ==
  IF source # "None" /\ host_id = source THEN g
  ELSE add_edge(g, cred_id, host_id, "AUTH_ACCESS", protocol)

RECURSIVE link_hosts(_, _, _, _, _)
\* lines 175-189: the loop over the related hosts
link_hosts(g, cred_id, hosts, source, protocol) ==
  IF hosts = <<>> THEN g
  ELSE link_hosts(link_host(g, cred_id, Head(hosts), source, protocol),
                  cred_id, Tail(hosts), source, protocol)

\* ShadowGraph._process_credential
process_credential(g, key, content, hosts, metadata) ==
  LET username == IF Given(metadata.username) THEN metadata.username
                  ELSE user_search(content)
      cred_id == "cred:" \o key
      label == IF username # "None" THEN "Creds (" \o username \o ")"
               ELSE "Credentials"
      g1 == add_node(g, cred_id, "credential", label)
      source == source_host(content, metadata)
      g2 == IF source # "None" /\ has_node(g1, source)
              THEN add_edge(g1, source, cred_id, "CONTAINS", "None")
              ELSE g1
      protocol == IF Contains(content, "ssh") THEN "ssh" ELSE "unknown"
  IN link_hosts(g2, cred_id, hosts, source, protocol)

\* lines 197-203 and 239-244: only the target of the metadata when it is
\* among the hosts of the note
target_hosts(hosts, metadata) ==
  IF Given(metadata.target) /\ Contains(hosts, "host:" \o metadata.target)
    THEN <<"host:" \o metadata.target>>
    ELSE hosts

\* lines 206-220: the port of the metadata first, then those of the text
ports_of(content, metadata) ==
  LET first == IF Given(metadata.port)
                 THEN (IF PortOf(metadata.port) # <<>>
                         THEN <<PortOf(metadata.port)>>
                         ELSE <<<<metadata.port, "tcp">>>>)
                 ELSE <<>>
      found == port_findall(content)
  IN first \o SelectSeq(found, LAMBDA p : ~Contains(first, p))

RECURSIVE add_services(_, _, _, _)
\* lines 222-232: one service node and one HAS_SERVICE edge per port and host
add_services(g, ports, hosts, url) ==
  IF ports = <<>> THEN g
  ELSE LET port == Head(ports)[1]
           proto == Head(ports)[2]
           label == (port \o "/" \o proto)
                    \o (IF Given(url) THEN " (" \o url \o ")" ELSE "")
           one[n \in 0..Len(hosts)] ==
             IF n = 0 THEN g
             ELSE LET service_id == "service:" \o hosts[n] \o ":" \o port
                  IN add_edge(add_node(one[n - 1], service_id, "service", label),
                              hosts[n], service_id, "HAS_SERVICE", proto)
       IN add_services(one[Len(hosts)], Tail(ports), hosts, url)

\* ShadowGraph._process_finding
process_finding(g, key, content, hosts, metadata) ==
  add_services(g, ports_of(content, metadata), target_hosts(hosts, metadata),
               metadata.url)

\* ShadowGraph._process_vulnerability
process_vulnerability(g, key, content, hosts, metadata) ==
  LET targets == target_hosts(hosts, metadata)
      vuln_id == "vuln:" \o key
      label == IF Given(metadata.cve) THEN metadata.cve
               ELSE IF cve_search(content) # "None" THEN cve_search(content)
               ELSE "Vulnerability"
      g1 == add_node(g, vuln_id, "vulnerability", label)
      affected[n \in 0..Len(targets)] ==
        IF n = 0 THEN g1
        ELSE add_edge(affected[n - 1], targets[n], vuln_id, "AFFECTED_BY", "None")
  IN affected[Len(targets)]

\* ShadowGraph._process_note
process_note(g, key, content, category, metadata) ==
  LET hosts == related_hosts(content, metadata)
      g1 == add_hosts(g, hosts)
  IN CASE category = "credential" ->
            process_credential(g1, key, content, hosts, metadata)
       [] category = "finding" ->
            process_finding(g1, key, content, hosts, metadata)
       [] category = "vulnerability" ->
            process_vulnerability(g1, key, content, hosts, metadata)
       [] OTHER -> g1

NoMetadata ==
  [target |-> "None", source |-> "None", username |-> "None",
   port |-> "None", cve |-> "None", url |-> "None"]

\* lines 77-88: one note of the dict, legacy string or dict
process_entry(g, key, note_data) ==
  LET content == note_data.content
      category == IF note_data.isstr THEN "info" ELSE note_data.category
      metadata == IF note_data.isstr THEN NoMetadata ELSE note_data.metadata
  IN [process_note(g, key, content, category, metadata)
        EXCEPT !.processed_notes = @ \cup {key}]

\* update_from_note that processes the note whether or not its key was seen
update_from_note_Reprocess(g, key, note_data) ==
  process_entry(g, key, note_data)

\* lines 74-88, one turn of the loop: a key already processed is skipped
update_from_note(g, key, note_data) ==
  IF key \in g.processed_notes THEN g
  ELSE process_entry(g, key, note_data)

RECURSIVE update_from_notes(_, _)
\* ShadowGraph.update_from_notes over notes.items()
update_from_notes(g, items) ==
  IF items = <<>> THEN g
  ELSE update_from_notes(
         update_from_note(g, Head(items).key, Head(items).note_data),
         Tail(items))

\* the targets of the edges that leave node, in insertion order
out_edges(g, node) ==
  LET es == SelectSeq(g.edges, LAMBDA e : e.source = node)
  IN [i \in 1..Len(es) |-> es[i].target]

NodeOf(g, node_id) ==
  g.nodes[CHOOSE i \in 1..Len(g.nodes) : g.nodes[i].id = node_id]

\* separator.join(parts)
RECURSIVE Join(_, _)
Join(parts, separator) ==
  IF parts = <<>> THEN <<>>
  ELSE IF Len(parts) = 1 THEN parts
  ELSE <<Head(parts), separator>> \o Join(Tail(parts), separator)

NodeIds(g) == {g.nodes[i].id : i \in 1..Len(g.nodes)}

RECURSIVE Distance(_, _, _, _, _)
\* breadth-first search: number of edges from the frontier to target, -1 if
\* target cannot be reached
Distance(g, frontier, seen, target, d) ==
  IF target \in frontier THEN d
  ELSE LET next == {n \in NodeIds(g) \ seen :
                      \E f \in frontier : has_edge(g, f, n)}
       IN IF next = {} THEN -1
          ELSE Distance(g, next, seen \cup next, target, d + 1)

RECURSIVE PathsOfLength(_, _, _, _)
\* the directed paths of d edges from source to target
PathsOfLength(g, source, target, d) ==
  IF d = 0 THEN (IF source = target THEN {<<source>>} ELSE {})
  ELSE UNION {{<<source>> \o p : p \in PathsOfLength(g, n, target, d - 1)} :
                n \in {m \in NodeIds(g) : has_edge(g, source, m)}}

\* what nx.shortest_path(graph, source, target) may return; the empty set
\* stands for NetworkXNoPath
shortest_path(g, source, target) ==
  LET d == Distance(g, {source}, {source}, target, 0)
  IN IF d < 0 THEN {} ELSE PathsOfLength(g, source, target, d)

OfType(g, type) ==
  LET ns == SelectSeq(g.nodes, LAMBDA n : n.type = type)
  IN [i \in 1..Len(ns) |-> ns[i].id]

\* the pairs of the two loops of _find_attack_paths, in loop order
CredHostPairs(g) ==
  LET creds == OfType(g, "credential")
      hosts == OfType(g, "host")
  IN [i \in 1..(Len(creds) * Len(hosts)) |->
        <<creds[((i - 1) \div Len(hosts)) + 1], hosts[((i - 1) % Len(hosts)) + 1]>>]

\* lines 330-337: the path as a chain of labels
readable_path(g, path) ==
  <<"Attack Path Found:">>
    \o Join([i \in 1..Len(path) |-> NodeOf(g, path[i]).label], "->")

\* attack_path that reports the hosts a credential reaches directly as well
attack_path_Direct(g, cred, host, found) ==
  IF shortest_path(g, cred, host) = {} THEN <<>>
  ELSE IF Len(found[<<cred, host>>]) > 1
    THEN <<readable_path(g, found[<<cred, host>>])>>
  ELSE <<>>

\* lines 322-339, one turn of the inner loop; found[pair] is the path the
\* library returns for the pair
attack_path(g, cred, host, found) ==
  IF has_edge(g, cred, host) THEN <<>>
  ELSE IF shortest_path(g, cred, host) = {} THEN <<>>
  ELSE IF Len(found[<<cred, host>>]) > 2
    THEN <<readable_path(g, found[<<cred, host>>])>>
  ELSE <<>>

RECURSIVE find_attack_paths(_, _, _)
\* ShadowGraph._find_attack_paths
find_attack_paths(g, pairs, found) ==
  IF pairs = <<>> THEN <<>>
  ELSE attack_path(g, Head(pairs)[1], Head(pairs)[2], found)
       \o find_attack_paths(g, Tail(pairs), found)

\* the pairs the library is asked about and finds a path for
Searched(g) ==
  {CredHostPairs(g)[i] : i \in 1..Len(CredHostPairs(g))}

Connected(g) ==
  {p \in Searched(g) : shortest_path(g, p[1], p[2]) # {}}

\* the answers the library may give to the searches of one call
PathChoices(g) ==
  {found \in [Connected(g) -> UNION {shortest_path(g, p[1], p[2]) : p \in Connected(g)}] :
     \A p \in Connected(g) : found[p] \in shortest_path(g, p[1], p[2])}

\* lines 271-281: what each credential gives access to
credential_insights(g) ==
  LET creds == SelectSeq(OfType(g, "credential"),
                         LAMBDA c : out_edges(g, c) # <<>>)
  IN [i \in 1..Len(creds) |->
        <<"We have credentials that provide access to:">>
          \o Join([j \in 1..Len(out_edges(g, creds[i])) |->
                     NodeOf(g, out_edges(g, creds[i])[j]).label], ",")]

CountOfType(g, targets, type) ==
  Len(SelectSeq(targets, LAMBDA t : NodeOf(g, t).type = type))

\* lines 284-301: hosts with services or vulnerabilities
host_insights(g) ==
  LET hosts == SelectSeq(OfType(g, "host"),
                 LAMBDA h : CountOfType(g, out_edges(g, h), "service") > 0
                            \/ CountOfType(g, out_edges(g, h), "vulnerability") > 0)
  IN [i \in 1..Len(hosts) |->
        <<"Host", NodeOf(g, hosts[i]).label, "has",
          ToString(CountOfType(g, out_edges(g, hosts[i]), "service")),
          "services and",
          ToString(CountOfType(g, out_edges(g, hosts[i]), "vulnerability")),
          "known vulnerabilities.">>]

\* ShadowGraph.get_strategic_insights
get_strategic_insights(g, found) ==
  credential_insights(g) \o host_insights(g)
    \o find_attack_paths(g, CredHostPairs(g), found)

(***************************************************************************)
(* The graph fed with dicts of notes and asked for its insights            *)
(***************************************************************************)
Note(content, category, metadata) ==
  [isstr |-> FALSE, content |-> content, category |-> category,
   metadata |-> metadata]

\* a note that is a bare string
LegacyNote(content) ==
  [isstr |-> TRUE, content |-> content, category |-> "None",
   metadata |-> NoMetadata]

\* the notes a dict may hold
NoteData ==
  {Note(<<"password">>, "credential",
        [NoMetadata EXCEPT !.target = t, !.source = s]) :
     t \in Addresses \cup {"None"}, s \in {"10.0.0.1", "None"}}
  \cup {Note(<<"Username:", "root", "found on", "10.0.0.1", "ssh", "10.0.0.2">>,
             "credential", NoMetadata),
        Note(<<"open", "80/tcp", "53/udp">>, "finding",
             [NoMetadata EXCEPT !.target = "10.0.0.2", !.port = "443"]),
        Note(<<"CVE-2025-1234">>, "vulnerability",
             [NoMetadata EXCEPT !.target = "10.0.0.2"]),
        LegacyNote(<<"Host", "10.0.0.1", "is", "up">>)}

\* dicts of notes, as their items in insertion order
NoteDicts ==
  {items \in UNION {[1..n -> [key : NoteKeys, note_data : NoteData]] :
                      n \in 1..MaxNotes} :
     \A i, j \in 1..Len(items) : i # j => items[i].key # items[j].key}

NoGraphCall == [op |-> "none", notes |-> <<>>, insights |-> <<>>]

InitGraph ==
  /\ agent = NoAgent
  /\ workers = <<>>
  /\ tasks = <<>>
  /\ next_id = 0
  /\ client = NoGraphCall
  /\ state_manager = AgentStateManager
  /\ orchestrator = CrewOrchestrator
  /\ StoreInit

\* everything but the graph and its caller
notGraph ==
  <<agent, workers, tasks, next_id, state_manager, orchestrator, memory,
    conversation, notes>>

UpdateFromNotes ==
  /\ \E items \in NoteDicts :
        /\ graph' = update_from_notes(graph, items)
        /\ client' = [op |-> "update_from_notes", notes |-> items,
                      insights |-> <<>>]
  /\ UNCHANGED notGraph

GetStrategicInsights ==
  /\ \E found \in PathChoices(graph) :
        client' = [op |-> "get_strategic_insights", notes |-> <<>>,
                   insights |-> get_strategic_insights(graph, found)]
  /\ UNCHANGED <<graph, notGraph>>

NextGraph ==
  \/ UpdateFromNotes
  \/ GetStrategicInsights

SpecGraph == InitGraph /\ [][NextGraph]_vars

(***************************************************************************)
(* Notes store (tools/notes): the module's map _notes and the file it is   *)
(* persisted to.  A dict is the sequence of its items in insertion order;  *)
(* keys and texts are sequences of characters or words.  Each call of the  *)
(* tool runs under _notes_lock and has no await inside, so it is one step. *)
(***************************************************************************)
MaxKeys == 2

\* the keys callers use
KeyNames == {<<"k" \o ToString(i)>> : i \in 1..MaxKeys}

NoteEntry(key, content, category, confidence) ==
  [key |-> key, isstr |-> FALSE, content |-> content, category |-> category,
   confidence |-> confidence]

\* a legacy item of the file: the value is a bare string
LegacyEntry(key, content) ==
  [key |-> key, isstr |-> TRUE, content |-> content, category |-> "None",
   confidence |-> "None"]

\* position of key in the dict, 0 if absent
IndexOf(dict, key) ==
  IF \E i \in 1..Len(dict) : dict[i].key = key
    THEN CHOOSE i \in 1..Len(dict) : dict[i].key = key
    ELSE 0

\* dict[key] = entry
SetItem(dict, key, entry) ==
  IF IndexOf(dict, key) # 0
    THEN [dict EXCEPT ![IndexOf(dict, key)] = entry]
    ELSE Append(dict, entry)

\* del dict[key]
DelItem(dict, key) == SelectSeq(dict, LAMBDA e : e.key # key)

\* _load_notes_unlocked: legacy strings become info notes; a file that cannot
\* be parsed empties the map; no file leaves the map as it is
load_notes_unlocked(n) ==
  IF ~n.file.exists THEN n
  ELSE IF ~n.file.valid THEN [n EXCEPT !.notes = <<>>]
  ELSE [n EXCEPT !.notes =
          [i \in 1..Len(n.file.items) |->
             IF n.file.items[i].isstr
               THEN NoteEntry(n.file.items[i].key, n.file.items[i].content,
                              "info", "medium")
               ELSE n.file.items[i]]]

\* _save_notes_unlocked: the file becomes the JSON text of the map
save_notes_unlocked(n) ==
  [n EXCEPT !.file = [exists |-> TRUE, valid |-> TRUE, items |-> n.notes]]

valid_categories ==
  {"finding", "credential", "task", "info", "vulnerability", "artifact"}

\* sorted(by_category.keys()) over the categories in use
SortedCategories ==
  <<"artifact", "credential", "finding", "info", "task", "vulnerability">>

\* str.title of a category
Title(cat) ==
  CASE cat = "artifact" -> "Artifact"
    [] cat = "credential" -> "Credential"
    [] cat = "finding" -> "Finding"
    [] cat = "info" -> "Info"
    [] cat = "task" -> "Task"
    [] cat = "vulnerability" -> "Vulnerability"
    [] OTHER -> cat

\* lines 234-237: long contents are cut for display
display_val(content) ==
  IF Len(content) <= 60 THEN content
  ELSE SubSeq(content, 1, 57) \o <<"...">>

\* lines 221-241: the listing, one group per category
list_lines(dict) ==
  LET Group(cat) ==
        LET es == SelectSeq(dict, LAMBDA e : e.category = cat)
        IN IF es = <<>> THEN <<>>
           ELSE <<<<"##", Title(cat)>>>>
                \o [i \in 1..Len(es) |->
                      <<"[">> \o es[i].key \o <<"]", es[i].confidence>>
                        \o display_val(es[i].content)]
      groups[c \in 0..Len(SortedCategories)] ==
        IF c = 0 THEN <<>> ELSE groups[c - 1] \o Group(SortedCategories[c])
  IN <<<<"Notes", ToString(Len(dict)), "entries:">>>>
       \o groups[Len(SortedCategories)]

\* create that stores the note whether or not the key is present
create_Overwrites(n, key, value, category, confidence) ==
  IF key = <<>> THEN
    [n |-> n, result |-> <<"Error:", "key is required for create">>]
  ELSE IF value = <<>> THEN
    [n |-> n, result |-> <<"Error:", "value is required for create">>]
  ELSE
    [n |-> save_notes_unlocked(
             [n EXCEPT !.notes = SetItem(@, key, NoteEntry(key, value, category,
                                                           confidence))]),
     result |-> <<"Created note">> \o key \o <<category>>]

\* lines 158-172: action "create"
create(n, key, value, category, confidence) ==
  IF key = <<>> THEN
    [n |-> n, result |-> <<"Error:", "key is required for create">>]
  ELSE IF value = <<>> THEN
    [n |-> n, result |-> <<"Error:", "value is required for create">>]
  ELSE IF IndexOf(n.notes, key) # 0 THEN
    [n |-> n, result |-> <<"Error:", "note">> \o key \o <<"already exists.">>]
  ELSE
    [n |-> save_notes_unlocked(
             [n EXCEPT !.notes = SetItem(@, key, NoteEntry(key, value, category,
                                                           confidence))]),
     result |-> <<"Created note">> \o key \o <<category>>]

\* lines 174-183: action "read"
read(n, key) ==
  IF key = <<>> THEN
    [n |-> n, result |-> <<"Error:", "key is required for read">>]
  ELSE IF IndexOf(n.notes, key) = 0 THEN
    [n |-> n, result |-> <<"Note">> \o key \o <<"not found">>]
  ELSE LET note == n.notes[IndexOf(n.notes, key)]
       IN [n |-> n,
           result |-> <<"[">> \o key \o <<"]", note.category, note.confidence>>
                        \o note.content]

\* lines 185-205: action "update"
update(n, key, value, category, confidence) ==
  IF key = <<>> THEN
    [n |-> n, result |-> <<"Error:", "key is required for update">>]
  ELSE IF value = <<>> THEN
    [n |-> n, result |-> <<"Error:", "value is required for update">>]
  ELSE
    LET existed == IndexOf(n.notes, key) # 0
    IN [n |-> save_notes_unlocked(
                [n EXCEPT !.notes = SetItem(@, key, NoteEntry(key, value,
                                                              category,
                                                              confidence))]),
        result |-> <<IF existed THEN "Updated" ELSE "Created", "note">> \o key]

\* delete that removes the note from the map and leaves the file as it is
delete_KeepsFile(n, key) ==
  IF key = <<>> THEN
    [n |-> n, result |-> <<"Error:", "key is required for delete">>]
  ELSE IF IndexOf(n.notes, key) = 0 THEN
    [n |-> n, result |-> <<"Note">> \o key \o <<"not found">>]
  ELSE
    [n |-> [n EXCEPT !.notes = DelItem(@, key)],
     result |-> <<"Deleted note">> \o key]

\* lines 207-215: action "delete"
delete(n, key) ==
  IF key = <<>> THEN
    [n |-> n, result |-> <<"Error:", "key is required for delete">>]
  ELSE IF IndexOf(n.notes, key) = 0 THEN
    [n |-> n, result |-> <<"Note">> \o key \o <<"not found">>]
  ELSE
    [n |-> save_notes_unlocked([n EXCEPT !.notes = DelItem(@, key)]),
     result |-> <<"Deleted note">> \o key]

\* the tool notes(arguments, runtime)
notes_tool(n, arguments) ==
  LET action == arguments.action
      key == Strip(arguments.key)
      value == arguments.value
      given == IF arguments.category = "None" THEN "info"
               ELSE arguments.category
      category == IF given \notin valid_categories THEN "info" ELSE given
      confidence == IF arguments.confidence = "None" THEN "medium"
                    ELSE arguments.confidence
  IN CASE action = "create" -> create(n, key, value, category, confidence)
       [] action = "read" -> read(n, key)
       [] action = "update" -> update(n, key, value, category, confidence)
       [] action = "delete" -> delete(n, key)
       [] action = "list" ->
            [n |-> n,
             result |-> IF n.notes = <<>> THEN <<"No notes saved">>
                        ELSE list_lines(n.notes)]
       [] OTHER -> [n |-> n, result |-> <<"Unknown action:", action>>]

\* get_all_notes: an empty map is loaded from the file first
get_all_notes(n) ==
  LET n1 == IF n.notes = <<>> THEN load_notes_unlocked(n) ELSE n
  IN [n |-> n1, result |-> n1.notes]

(***************************************************************************)
(* The notes store used by callers, one call at a time                     *)
(***************************************************************************)
\* the files the module may find when it is imported
NotesFiles ==
  {NoFile,
   [exists |-> TRUE, valid |-> FALSE, items |-> <<>>],
   [exists |-> TRUE, valid |-> TRUE,
    items |-> <<LegacyEntry(<<"k1">>, <<"old">>)>>]}

\* keys as callers write them: missing, plain, or with blanks around
ArgKeys == {<<>>} \cup KeyNames \cup {<<" ", "k1", " ">>}

ArgValues == {<<>>, <<"v1">>, <<"v2">>}

NoteArguments(action) ==
  [action : {action}, key : ArgKeys, value : ArgValues,
   category : {"None", "credential", "bogus"}, confidence : {"None", "high"}]

KeyArguments(action) ==
  [action : {action}, key : ArgKeys, value : {<<>>},
   category : {"None"}, confidence : {"None"}]

InitNotes ==
  /\ agent = NoAgent
  /\ workers = <<>>
  /\ tasks = <<>>
  /\ next_id = 0
  /\ client = [action |-> "none", key |-> <<>>, value |-> <<>>, result |-> <<>>]
  /\ state_manager = AgentStateManager
  /\ orchestrator = CrewOrchestrator
  /\ memory = ConversationMemory(MaxTokens, MaxRecent)
  /\ conversation = <<>>
  /\ graph = ShadowGraph
  /\ notes \in {load_notes_unlocked([notes |-> <<>>, file |-> f]) :
                  f \in NotesFiles}

\* everything but the notes store and its caller
notNotes ==
  <<agent, workers, tasks, next_id, state_manager, orchestrator, memory,
    conversation, graph>>

\* what the caller of the tool keeps of a call: its arguments and the answer
Called(n, arguments) ==
  [action |-> arguments.action, key |-> arguments.key,
   value |-> arguments.value, result |-> notes_tool(n, arguments).result]

CreateNote ==
  /\ \E arguments \in NoteArguments("create") :
        /\ notes' = notes_tool(notes, arguments).n
        /\ client' = Called(notes, arguments)
  /\ UNCHANGED notNotes

ReadNote ==
  /\ \E arguments \in KeyArguments("read") :
        /\ notes' = notes_tool(notes, arguments).n
        /\ client' = Called(notes, arguments)
  /\ UNCHANGED notNotes

UpdateNote ==
  /\ \E arguments \in NoteArguments("update") :
        /\ notes' = notes_tool(notes, arguments).n
        /\ client' = Called(notes, arguments)
  /\ UNCHANGED notNotes

DeleteNote ==
  /\ \E arguments \in KeyArguments("delete") :
        /\ notes' = notes_tool(notes, arguments).n
        /\ client' = Called(notes, arguments)
  /\ UNCHANGED notNotes

ListNotes ==
  /\ \E arguments \in KeyArguments("list") :
        /\ notes' = notes_tool(notes, arguments).n
        /\ client' = Called(notes, arguments)
  /\ UNCHANGED notNotes

\* an action the tool does not know
UnknownAction ==
  /\ \E arguments \in KeyArguments("append") :
        /\ notes' = notes_tool(notes, arguments).n
        /\ client' = Called(notes, arguments)
  /\ UNCHANGED notNotes

GetAllNotes ==
  /\ notes' = get_all_notes(notes).n
  /\ client' = [action |-> "get_all_notes", key |-> <<>>, value |-> <<>>,
                result |-> <<"dict">>]
  /\ UNCHANGED notNotes

NextNotes ==
  \/ CreateNote
  \/ ReadNote
  \/ UpdateNote
  \/ DeleteNote
  \/ ListNotes
  \/ UnknownAction
  \/ GetAllNotes

SpecNotes == InitNotes /\ [][NextNotes]_vars

(***************************************************************************)
(* The notes store shared by the orchestrator and its workers.  Each is an *)
(* asyncio task; a task that calls the tool takes _notes_lock, which is    *)
(* free because no holder ever suspends, and runs the call to its end      *)
(* before any other task takes a step.                                     *)
(***************************************************************************)
MaxCalls == 3

\* the tasks that use the tool
NoteCallers == {"orchestrator", "ghost-0"}

\* the calls that change the store
SharedArguments ==
  [action : {"create", "update", "delete"},
   key : KeyNames \cup {<<" ", "k1", " ">>}, value : {<<"v1">>, <<"v2">>},
   category : {"None"}, confidence : {"None"}]

InitShared ==
  /\ agent = NoAgent
  /\ workers = <<>>
  /\ tasks = <<>>
  /\ next_id = 0
  /\ state_manager = AgentStateManager
  /\ orchestrator = CrewOrchestrator
  /\ memory = ConversationMemory(MaxTokens, MaxRecent)
  /\ conversation = <<>>
  /\ graph = ShadowGraph
  /\ notes \in {load_notes_unlocked([notes |-> <<>>, file |-> f]) :
                  f \in NotesFiles}
  /\ client = [start |-> notes, calls |-> <<>>]

\* async with _notes_lock: the body of the call, from acquire to release
locked_call(n, arguments) == notes_tool(n, arguments)

\* a task's tool call reaches notes() and runs under the lock
SharedCall ==
  /\ Len(client.calls) < MaxCalls
  /\ \E caller \in NoteCallers, arguments \in SharedArguments :
        /\ notes' = locked_call(notes, arguments).n
        /\ client' = [client EXCEPT !.calls =
                        Append(@, [caller |-> caller, arguments |-> arguments,
                                   result |-> locked_call(notes, arguments).result])]
  /\ UNCHANGED notNotes

NextShared ==
  \/ SharedCall

SpecShared == InitShared /\ [][NextShared]_vars

(***************************************************************************)
(* Properties of the agent loop                                            *)
(***************************************************************************)
\* the batch of the current iteration holds a result with the completion signal
EndedBySignal(a) ==
  /\ a.response.tool_calls # <<>>
  /\ FirstComplete(a.results) # 0

Flagged(seq, flag) == {i \in 1..Len(seq) : seq[i].metadata = flag}

Has(seq, x) == \E i \in 1..Len(seq) : seq[i] = x

Rank(a) ==
  CASE a.pc = "idle" -> (a.max_iterations + 2) * (MaxBatch + 2)
    [] a.pc = "llm"  -> 1 + (a.max_iterations - a.iteration) * (MaxBatch + 2)
                          + MaxBatch + 1
    [] a.pc = "tool" -> 1 + (a.max_iterations - a.iteration) * (MaxBatch + 2)
                          + Len(a.tool_calls) - Len(a.results)
    [] OTHER         -> 0

C2_CapExit ==
  /\ agent.llm_calls <= agent.max_iterations
  /\ (agent.pc = "done" /\ ~EndedBySignal(agent)) =>
        /\ agent.llm_calls = agent.max_iterations
        /\ Flagged(agent.out, "max_iterations_reached") = {Len(agent.out)}
        /\ agent.conversation_history # <<>>
        /\ agent.conversation_history[Len(agent.conversation_history)]
              = agent.out[Len(agent.out)]
        /\ Cardinality(Flagged(agent.conversation_history,
                               "max_iterations_reached")) = 1
        /\ agent.state = "complete"
  /\ agent.pc \notin {"done", "cleaned"} =>
        Flagged(agent.out, "max_iterations_reached") = {}

\* C2: one run makes at most max_iterations model calls; every step of the run
\* uses up a bounded rank, so a run whose calls all return terminates; when the
\* cap ends the run, exactly one warning flagged max_iterations_reached is
\* appended to the history and emitted, and the agent state is complete.
C2_BoundedRun ==
  /\ []C2_CapExit
  /\ [][agent'.pc # "cleaned" =>
          (Rank(agent') < Rank(agent) /\ Rank(agent') >= 0)]_agent

\* the cap ended a run of at least two model calls
C2_Witness ==
  /\ agent.pc = "done"
  /\ ~EndedBySignal(agent)
  /\ agent.max_iterations >= 2
  /\ agent.llm_calls = agent.max_iterations

\* C3: when a tool result of the batch carries the completion signal, the last
\* event is flagged task_complete and holds the extracted summary, no further
\* model call is made, and the agent state is complete when the loop returns.
C3_CompletionExit ==
  (agent.response.tool_calls # <<>> /\ FirstComplete(agent.results) # 0
     /\ Len(agent.results) = Len(agent.tool_calls)) =>
     /\ agent.pc = "done"
     /\ agent.out[Len(agent.out)].metadata = "task_complete"
     /\ agent.out[Len(agent.out)].content =
          extract_completion_summary(
             agent.results[FirstComplete(agent.results)].result)
     /\ agent.state = "complete"

\* C19: a call naming a tool that is not in the agent's tool list gets a
\* failed ToolResult whose error text holds that name; a batch of such calls
\* does not end the loop; and the messages sent with the next model call hold,
\* for that call id, a tool message with that error.
C19_UnknownToolReported ==
  /\ \A j \in 1..Len(agent.results) :
        agent.results[j].tool_name \notin AgentTools =>
           /\ ~agent.results[j].success
           /\ Has(agent.results[j].error, agent.tool_calls[j].name)
  /\ (agent.pc = "llm" /\ agent.response.tool_calls # <<>>) =>
        \A j \in 1..Len(agent.results) :
           agent.tool_calls[j].name \notin AgentTools =>
              agent.messages[Len(agent.messages) - Len(agent.results) + j] =
                 [role |-> "tool",
                  content |-> <<"Error:">> \o agent.results[j].error,
                  tool_calls |-> <<>>,
                  tool_call_id |-> agent.tool_calls[j].id]
  /\ (agent.pc = "done" /\ agent.response.tool_calls # <<>>
        /\ \A j \in 1..Len(agent.results) :
              agent.results[j].tool_name \notin AgentTools) =>
        agent.llm_calls = agent.max_iterations

\* the model is called again after a batch whose second call named an
\* unregistered tool
C19_Witness ==
  /\ agent.pc = "llm"
  /\ agent.iteration >= 2
  /\ Len(agent.response.tool_calls) = 2
  /\ agent.response.tool_calls[1].name = "terminal"
  /\ agent.response.tool_calls[2].name \notin AgentTools
  /\ Len(agent.results) = 2

\* C20: after cleanup_after_cancel the agent state is idle, whatever the
\* state was when the cancellation arrived.
C20_CleanupLeavesIdle ==
  agent.pc = "cleaned" => agent.state = "idle"

\* user messages of history from position from on
UsersFrom(history, from) ==
  {j \in from..Len(history) : history[j].role = "user"}

\* C21: cleanup_after_cancel after a cancelled loop removes a tail of the
\* history and nothing else; what is left does not end with an assistant
\* message carrying tool calls nor with a tool_result message; the tail holds
\* the user message that started the cancelled request and no other user
\* message.
C21_CleanupRemovesIncompleteTurn ==
  [][(agent.pc = "cancelled" /\ agent'.pc = "cleaned") =>
       LET old == agent.conversation_history
           new == agent'.conversation_history
       IN /\ Len(new) <= Len(old)
          /\ new = SubSeq(old, 1, Len(new))
          /\ new # <<>> =>
                /\ ~(new[Len(new)].role = "assistant"
                       /\ new[Len(new)].tool_calls # <<>>)
                /\ new[Len(new)].role # "tool_result"
          /\ Cardinality(UsersFrom(old, Len(new) + 1)) = 1
          /\ UsersFrom(new, 1) = {}]_vars

\* the event carries structured calls and no results
IsEarlyEvent(msg) == msg.tool_calls # <<>> /\ msg.tool_results = <<>>

\* the event carries the results of a batch
IsResultsEvent(msg) == msg.tool_calls # <<>> /\ msg.tool_results # <<>>

\* the history ends with the assistant message and the tool_result message
\* of the batch
BatchRecorded(history, msg) ==
  /\ Len(history) >= 2
  /\ history[Len(history) - 1].role = "assistant"
  /\ history[Len(history) - 1].tool_calls = msg.tool_calls
  /\ history[Len(history)].role = "tool_result"
  /\ history[Len(history)].tool_results = msg.tool_results

\* C22: in every iteration whose response carries tool calls, the event that
\* lists the calls with no results is emitted while the agent is not yet
\* executing and no tool of the batch has started, and it is the last event
\* for as long as a tool of the batch runs; the results (or final) event of
\* the iteration follows it, and is emitted only when every call of the batch
\* has its result and the assistant message and the tool_result message of
\* the batch are in the history.
C22_IntentBeforeExecution ==
  /\ Len(agent.seen) = Len(agent.out)
  /\ \A i \in 1..Len(agent.out) :
       LET msg == agent.out[i]
           at == agent.seen[i]
       IN /\ IsEarlyEvent(msg) =>
               /\ at.state # "executing"
               /\ at.pc # "tool"
               /\ at.results = <<>>
          /\ IsResultsEvent(msg) =>
               /\ i > 1
               /\ IsEarlyEvent(agent.out[i - 1])
               /\ agent.out[i - 1].tool_calls = msg.tool_calls
               /\ Len(msg.tool_results) = Len(msg.tool_calls)
               /\ at.results = msg.tool_results
               /\ BatchRecorded(at.history, msg)
  /\ agent.pc = "tool" =>
       /\ agent.state = "executing"
       /\ agent.out # <<>>
       /\ IsEarlyEvent(agent.out[Len(agent.out)])
       /\ agent.out[Len(agent.out)].tool_calls = agent.tool_calls

\* a batch of MaxBatch calls, one of them awaited, has produced both events
C22_Witness ==
  \E i \in 2..Len(agent.out) :
     /\ IsResultsEvent(agent.out[i])
     /\ Len(agent.out[i].tool_calls) = MaxBatch
     /\ \E j \in 1..MaxBatch : agent.out[i].tool_calls[j].name \in Suspending
     /\ IsEarlyEvent(agent.out[i - 1])

\* the results answer the first Len(results) calls, one each and in order; a
\* call to a name that is not in the tool list has a failed result
AnswersInOrder(calls, results) ==
  /\ Len(results) <= Len(calls)
  /\ \A i \in 1..Len(results) :
       /\ results[i].tool_call_id = calls[i].id
       /\ results[i].tool_name = calls[i].name
       /\ results[i].success <=> results[i].error = <<>>
       /\ calls[i].name \notin AgentTools =>
             /\ ~results[i].success
             /\ results[i].error = <<"Tool", calls[i].name, "not found">>

\* C32: the calls of a batch are executed one at a time in the order given:
\* while a tool runs, the results so far answer the calls before it, one each
\* and in order; a call whose tool raised or whose name is unknown has a
\* failed result and the calls after it still run, so the results recorded
\* for a batch of n calls are n results in call order.
C32_BatchResults ==
  /\ agent.pc = "tool" =>
       /\ Len(agent.results) < Len(agent.tool_calls)
       /\ agent.tool_calls[Len(agent.results) + 1].name \in Suspending
       /\ AnswersInOrder(agent.tool_calls, agent.results)
  /\ \A j \in 1..Len(agent.conversation_history) :
       agent.conversation_history[j].role = "tool_result" =>
         /\ j > 1
         /\ Len(agent.conversation_history[j].tool_results)
              = Len(agent.conversation_history[j - 1].tool_calls)
         /\ AnswersInOrder(agent.conversation_history[j - 1].tool_calls,
                           agent.conversation_history[j].tool_results)

\* a recorded batch of MaxBatch calls whose first call raised or named an
\* unknown tool and whose last call succeeded
C32_Witness ==
  \E j \in 2..Len(agent.conversation_history) :
     LET results == agent.conversation_history[j].tool_results
     IN /\ agent.conversation_history[j].role = "tool_result"
        /\ Len(results) = MaxBatch
        /\ results[1].error = <<"boom">>
        /\ results[MaxBatch].success
        /\ \E k \in 2..Len(agent.conversation_history) :
              /\ agent.conversation_history[k].role = "tool_result"
              /\ Len(agent.conversation_history[k].tool_results) = MaxBatch
              /\ agent.conversation_history[k].tool_results[1].tool_name
                   \notin AgentTools
              /\ agent.conversation_history[k].tool_results[MaxBatch].success

\* the loop left by its completion exit: its last event carries the summary
CompletionExit(a) ==
  /\ a.pc = "done"
  /\ a.out # <<>>
  /\ a.out[Len(a.out)].metadata = "task_complete"

\* C38: the loop takes its completion exit only when the last batch holds a
\* successful call of the finish tool, and the summary it reports is the one
\* that call was given: the result of no other tool ends the loop or is
\* reported as the summary.
C38_OnlyFinishCompletes ==
  CompletionExit(agent) =>
     \E i \in 1..Len(agent.results) :
        /\ agent.results[i].tool_name = "finish"
        /\ agent.results[i].success
        /\ agent.out[Len(agent.out)].content
             = extract_completion_summary(agent.results[i].result)

\* C39: on every run of the agent, the first and every later one, whichever
\* way the run before ended, the state is thinking while a model call is in
\* flight and executing while a tool is executing.
C39_StateTracksActivity ==
  /\ agent.pc = "llm" => agent.state = "thinking"
  /\ agent.pc = "tool" => agent.state = "executing"

\* every assistant message of history that carries tool calls is followed at
\* once by a tool_result message with one result per call, in call order and
\* under the ids of the calls
Paired(history) ==
  \A j \in 1..Len(history) :
     (history[j].role = "assistant" /\ history[j].tool_calls # <<>>) =>
        /\ j < Len(history)
        /\ history[j + 1].role = "tool_result"
        /\ Len(history[j + 1].tool_results) = Len(history[j].tool_calls)
        /\ \A i \in 1..Len(history[j].tool_calls) :
              history[j + 1].tool_results[i].tool_call_id
                = history[j].tool_calls[i].id

Started(w) == workers[w].status # "pending" \/ workers[w].events # <<"spawn">>

Settled(w) == w \in DOMAIN tasks /\ tasks[w].pc = "done"

DepsOf(w) == {workers[w].depends_on[i] : i \in 1..Len(workers[w].depends_on)}

C5_SettlementReleases ==
  /\ [](\A w \in DOMAIN workers :
          /\ (client.call = "cancel" /\ client.op = "none"
                /\ client.ret = "true" /\ client.id = w
                /\ client.was = "running") => workers[w].status = "cancelled"
          /\ (workers[w].result # <<>> /\ workers[w].error = <<>>)
                => workers[w].status = "complete")
  /\ [][\A w \in DOMAIN workers :
          (tasks[w].pc = "depwait" /\ tasks'[w].pc # "depwait")
             => Has(workers'[w].events, "status")]_vars

\* C6: when cancel(id) has reported success the worker's execution unit has
\* settled, its status is cancelled and a cancelled event was emitted for it.
C6_CancelSettlesCancelled ==
  (client.call = "cancel" /\ client.op = "none" /\ client.ret = "true") =>
     /\ Settled(client.id)
     /\ workers[client.id].status = "cancelled"
     /\ Has(workers[client.id].events, "cancelled")

\* C7: cancel(id) on a worker that is not running (pending, terminal or
\* unknown) returns false at once, raises nothing and changes no worker.
C7_NotRunningNotCancellable ==
  [][(client.op = "none" /\ client' # client /\ client'.call = "cancel"
        /\ client'.was # "running")
       => (client'.op = "none" /\ client'.ret = "false" /\ workers' = workers)]_vars

\* C8: a worker whose loop stopped at the iteration cap has status warning,
\* its result recorded, and a warning event as its terminal event.
C8_CapIsWarning ==
  \A w \in DOMAIN workers :
     workers[w].result = WarningText =>
        /\ workers[w].status = "warning"
        /\ workers[w].events[Len(workers[w].events)] = "warning"

\* C9: an exception from the model call in one worker's loop leaves that
\* worker with status error and the error text recorded, does not escape the
\* worker's task, and changes no other worker, task or the caller.
C9_ModelErrorIsolated ==
  [][\A id \in DOMAIN tasks :
       ModelRaisesIn(id) =>
          /\ workers'[id].status = "error"
          /\ workers'[id].error = <<"model error">>
          /\ workers'[id].events = Append(workers[id].events, "error")
          /\ tasks'[id].outcome # "raised"
          /\ \A o \in DOMAIN tasks \ {id} :
                workers'[o] = workers[o] /\ tasks'[o] = tasks[o]
          /\ client' = client]_vars

\* a model error ended one worker while another was in the middle of its loop
C9_Witness ==
  \E w \in DOMAIN workers : \E o \in DOMAIN workers :
     /\ w # o
     /\ workers[w].status = "error"
     /\ workers[w].error = <<"model error">>
     /\ tasks[o].pc = "loop"

\* C10: once the execution unit of a worker that became running has settled,
\* its isolated runtime has been stopped (stop() returned or raised).
C10_RuntimeStopped ==
  \A w \in DOMAIN workers :
     (Settled(w) /\ Has(workers[w].events, "status"))
        => tasks[w].runtime \in {"stopped", "stop_failed"}

\* ids named in the call recorded in c that the pool with tasks ts knows
Named(c, ts) == {c.ids[i] : i \in 1..Len(c.ids)} \cap DOMAIN ts

C11_Snapshots ==
  client.call = "wait_for" =>
     /\ client.ret \in {"none", "returned"}
     /\ \A id \in DOMAIN client.results :
           /\ Settled(id)
           /\ client.results[id] = Snapshot(workers, id)

\* C11: wait_for raises nothing; when it returns, the value returned has an
\* entry for exactly the named ids the pool knows (all workers for None), the
\* execution unit of each of them has settled, and the entry holds the
\* worker's task, status, result, error and tools_used as they are after
\* settlement.
C11_WaitReturnsSettledSnapshots ==
  /\ []C11_Snapshots
  /\ [][(client'.call = "wait_for" /\ client'.op = "none" /\ client' # client) =>
          /\ client'.ret = "returned"
          /\ DOMAIN client'.results = Named(client', tasks')
          /\ \A id \in Named(client', tasks') : tasks'[id].pc = "done"]_vars

\* wait_for returned snapshots of a cancelled worker and of a worker that
\* ended in error, after having been suspended
C11_Witness ==
  /\ client.call = "wait_for"
  /\ client.op = "none"
  /\ \E a \in DOMAIN client.results : \E b \in DOMAIN client.results :
        /\ client.results[a].status = "cancelled"
        /\ client.results[b].status = "error"

Terminal == {"complete", "warning", "error", "cancelled"}

\* C12: on every step each worker's status stays as it is or moves forward:
\* pending to running, running to one terminal value, or pending to cancelled;
\* a terminal status never changes, and a new worker starts pending.
C12_StatusMovesForward ==
  [][\A w \in DOMAIN workers' :
       IF w \notin DOMAIN workers THEN workers'[w].status = "pending"
       ELSE LET old == workers[w].status
                new == workers'[w].status
            IN \/ new = old
               \/ old = "pending" /\ new = "running"
               \/ old = "running" /\ new \in Terminal
               \/ old = "pending" /\ new = "cancelled"]_vars

\* a cancel landed in the teardown of a worker whose status was terminal
C12_Witness ==
  \E w \in DOMAIN workers :
     /\ workers[w].status \in Terminal \ {"cancelled"}
     /\ tasks[w].runtime = "stop_interrupted"
     /\ tasks[w].outcome = "cancelled"

\* C13: the text synthesize_findings sends to the model holds an entry for
\* every worker that has a terminal status when it is called.
C13_EveryTerminalWorkerReported ==
  [][(client'.call = "synthesize_findings" /\ client' # client) =>
       \A w \in DOMAIN workers :
          workers[w].status \in Terminal =>
             \E i \in 1..Len(client'.results) : client'.results[i].task = w]_vars

(***************************************************************************)
(* Properties of the crew orchestrator                                     *)
(***************************************************************************)
\* every tool call of the last response has been dealt with
BatchDone(o) == o.responses >= 1 /\ Len(o.results) = Len(o.response.tool_calls)

\* results of synthesize_findings calls of the current iteration that returned
Reports(o) ==
  {j \in 1..Len(o.results) :
     o.results[j].name = "synthesize_findings" /\ o.results[j].outcome = "returned"}

\* some synthesize_findings call of the current iteration returned a
\* non-empty report
SomeReport(o) == \E j \in Reports(o) : o.results[j].result # <<>>

\* a response with non-empty text and no tool calls
TextOnly(o) == o.response.tool_calls = <<>> /\ o.response.content # <<>>

\* C14: the run has ended with the complete phase exactly when, in the current
\* iteration, synthesize_findings returned a non-empty report, or the response
\* had text and no tool calls, or the response was the
\* DEFAULT_MAX_ITERATIONS-th one.
C14_EndsOnAnyReport ==
  orchestrator.phase = "complete" <=>
     /\ BatchDone(orchestrator)
     /\ \/ SomeReport(orchestrator)
        \/ TextOnly(orchestrator)
        \/ orchestrator.responses = DEFAULT_MAX_ITERATIONS

\* a step on which CrewOrchestrator.cancel returns
CancelReturns ==
  /\ CrewCancelCall \/ CrewCancelReturn
  /\ client'.op = "none"
  /\ client'.ret = "returned"

Last(seq) == seq[Len(seq)]

\* what cancel has done to the log: a suffix is gone, with at most one user
\* message in it, and the log does not end with a tool call or a tool message
Trimmed(old, new) ==
  /\ Len(new) <= Len(old)
  /\ new = SubSeq(old, 1, Len(new))
  /\ Cardinality({j \in (Len(new) + 1)..Len(old) : old[j].role = "user"}) <= 1
  /\ new # <<>> =>
        /\ ~(Last(new).role = "assistant" /\ Last(new).tool_calls # <<>>)
        /\ Last(new).role # "tool"

\* C15: cancel() leaves the log alone until every worker's execution unit has
\* settled; when it returns no worker unit is unsettled, the log is trimmed
\* (no trailing assistant message with tool calls, no trailing tool message,
\* at most one user message removed) and the orchestrator state is idle.
C15_CancelSettlesThenTrims ==
  [][/\ (CrewCancelCall /\ client'.op # "none") =>
          orchestrator'.messages = orchestrator.messages
     /\ CancelReturns =>
          /\ \A id \in DOMAIN tasks' : tasks'[id].pc = "done"
          /\ Trimmed(orchestrator.messages, orchestrator'.messages)
          /\ orchestrator'.state = "idle"]_vars

(***************************************************************************)
(* Properties of the state manager                                         *)
(***************************************************************************)
\* the allowed-next sets as the state machine's contract lists them
C16_AllowedNext ==
  [S \in AgentState |->
     CASE S = "idle"          -> {"thinking", "error"}
       [] S = "thinking"      -> {"executing", "waiting_input", "complete", "error"}
       [] S = "executing"     -> {"thinking", "error"}
       [] S = "waiting_input" -> {"thinking", "complete", "error"}
       [] S = "complete"      -> {"idle"}
       [] S = "error"         -> {"idle"}]

\* C16: transition_to(T) from state S returns success iff T is in the
\* allowed-next set of S; on success the current state is T, on failure the
\* current state and the log are as they were.
C16_TransitionIffAllowed ==
  client.op = "transition_to" =>
     /\ client.returned <=> client.target \in C16_AllowedNext[client.before.current_state]
     /\ client.returned => state_manager.current_state = client.target
     /\ ~client.returned => state_manager = client.before
     /\ state_manager.current_state =
          transition_to(client.before.current_state, client.target)

\* transition_to(complete) was rejected in state executing, after earlier
\* transitions were applied
C16_Witness ==
  /\ client.op = "transition_to"
  /\ client.before.current_state = "executing"
  /\ client.target = "complete"
  /\ ~client.returned
  /\ state_manager.history # <<>>

\* C17: force_transition(T, reason) applies from every state to every target:
\* afterwards the current state is T and the newest log entry records the
\* previous state, T and a reason that begins with the marker FORCED.
C17_ForceAlwaysApplies ==
  client.op = "force_transition" =>
     LET h == state_manager.history IN
     /\ state_manager.current_state = client.target
     /\ Len(h) = Len(client.before.history) + 1
     /\ h[Len(h)].from_state = client.before.current_state
     /\ h[Len(h)].to_state = client.target
     /\ h[Len(h)].reason =
          (IF client.reason = <<>> THEN <<"FORCED">>
           ELSE <<"FORCED:">> \o client.reason)

\* a transition the table forbids was forced with a caller-supplied reason
C17_Witness ==
  /\ client.op = "force_transition"
  /\ client.target \notin VALID_TRANSITIONS[client.before.current_state]
  /\ client.reason # <<>>
  /\ state_manager.current_state = client.target

C18_LogChain ==
  LET h == state_manager.history IN
  /\ \A i \in 2..Len(h) : h[i].from_state = h[i - 1].to_state
  /\ h # <<>> => h[Len(h)].to_state = state_manager.current_state
  /\ h = <<>> => state_manager.current_state = "idle"
  /\ client.op = "reset" => state_manager = AgentStateManager

\* C18: the log holds one entry per applied transition since the last reset,
\* in order and chained (each from-state is the previous to-state, the last
\* to-state is the current state); a rejected transition adds nothing, an
\* applied one appends exactly one entry and leaves the others as they were,
\* and reset leaves the state idle with an empty log.
C18_LogIsFaithful ==
  /\ []C18_LogChain
  /\ [][LET h == state_manager.history
            applied == client'.op = "force_transition"
                         \/ (client'.op = "transition_to" /\ client'.returned)
        IN CASE client'.op = "reset" -> state_manager'.history = <<>>
             [] applied ->
                  state_manager'.history =
                     Append(h, StateTransition(state_manager.current_state,
                                               client'.target,
                                               state_manager'.history[Len(h) + 1].reason))
             [] OTHER -> state_manager'.history = h]_vars

\* a reset emptied a log that held a forced and a validated transition
C18_Witness ==
  /\ client.op = "reset"
  /\ Len(client.before.history) >= 2
  /\ \E i \in 1..Len(client.before.history) :
        client.before.history[i].reason = <<"FORCED">>
  /\ \E i \in 1..Len(client.before.history) :
        client.before.history[i].reason = <<"why">>
  /\ state_manager.history = <<>>

(***************************************************************************)
(* Properties of the conversation memory                                   *)
(***************************************************************************)
\* the messages of a returned list that come from the conversation: all of
\* it but a leading summary message
HistoryPart(result) ==
  IF result # <<>> /\ result[1].role = "system" THEN Tail(result) ELSE result

IsSuffix(part, msgs) ==
  /\ Len(part) <= Len(msgs)
  /\ part = SubSeq(msgs, Len(msgs) - Len(part) + 1, Len(msgs))

\* C23: for a conversation whose total tokens exceed the token budget,
\* get_messages returns a contiguous suffix of it, in order (after the summary
\* message when a summary is cached), the returned list has at most
\* token_budget tokens, and the suffix is not empty when the budget is
\* positive and the last message alone fits.
C23_SuffixWithinBudget ==
  (client.op = "get_messages"
     /\ get_total_tokens(client.messages) > token_budget(client.before)) =>
     LET part == HistoryPart(client.result)
         budget == token_budget(client.before)
     IN /\ IsSuffix(part, client.messages)
        /\ get_total_tokens(client.result) <= budget
        /\ (budget > 0
              /\ count_tokens(client.messages[Len(client.messages)]) <= budget)
             => part # <<>>

\* C24: every list get_messages_with_summary returns has at most
\* token_budget = int(max_tokens * reserve_ratio) tokens.
C24_ReturnedWithinBudget ==
  client.op = "get_messages_with_summary" =>
     get_total_tokens(client.result) <= token_budget(client.before)

\* the last call is a get_messages_with_summary that made, or is making, its
\* model call
CalledModel ==
  client.op = "summarize"
    \/ (client.op = "get_messages_with_summary" /\ client.llm_calls = 1)

\* the split point of the last call: length - recent_to_keep
SplitPoint == Len(client.messages) - client.before.recent_to_keep

\* the last call had to deal with a conversation over the threshold and longer
\* than recent_to_keep
OverThreshold ==
  /\ get_total_tokens(client.messages) > threshold_tokens(client.before)
  /\ Len(client.messages) > client.before.recent_to_keep

\* C25 as stated: get_messages_with_summary calls the model only when the
\* total tokens exceed the threshold, the conversation is longer than
\* recent_to_keep and the split point is greater than the cached count; it then
\* calls it once and the cache becomes (new summary, split point).  When the
\* split point is at most the cached count, the cached summary is returned with
\* no model call.  The cache is discarded only by clear_summary_cache.
C25_CacheKeyedByCount ==
  /\ [](/\ CalledModel =>
             /\ OverThreshold
             /\ SplitPoint > client.before.summarized_count
        /\ (client.op = "get_messages_with_summary" /\ client.llm_calls = 1) =>
             /\ client.result[1] = SummaryMessage(memory.cached_summary)
             /\ memory.summarized_count = SplitPoint
        /\ (client.op = "get_messages_with_summary" /\ OverThreshold
              /\ client.before.summarized_count > 0
              /\ SplitPoint <= client.before.summarized_count) =>
             /\ client.llm_calls = 0
             /\ client.result[1] = SummaryMessage(client.before.cached_summary)
             /\ memory = client.before)
  /\ [][(memory.summarized_count > 0 /\ memory'.summarized_count = 0)
          => client'.op = "clear_summary_cache"]_vars

\* C25 (amended): as above, but the cached count counts only while the cached
\* summary is not empty: the model is called when the split point is greater
\* than the cached count or the cached summary is empty, and the cached
\* summary is returned with no model call when it is not empty and the split
\* point is at most the cached count.
C25_CacheKeyedByCountAndSummary ==
  /\ [](/\ CalledModel =>
             /\ OverThreshold
             /\ \/ SplitPoint > client.before.summarized_count
                \/ ~Truthy(client.before.cached_summary)
        /\ (client.op = "get_messages_with_summary" /\ client.llm_calls = 1) =>
             /\ client.result[1] = SummaryMessage(memory.cached_summary)
             /\ memory.summarized_count = SplitPoint
        /\ (client.op = "get_messages_with_summary" /\ OverThreshold
              /\ Truthy(client.before.cached_summary)
              /\ SplitPoint <= client.before.summarized_count) =>
             /\ client.llm_calls = 0
             /\ client.result[1] = SummaryMessage(client.before.cached_summary)
             /\ memory = client.before)
  /\ [][(memory.summarized_count > 0 /\ memory'.summarized_count = 0)
          => client'.op = "clear_summary_cache"]_vars

\* the model was called again for a prefix no longer than the one already
\* folded, because the summary cached for it was empty
C25_Witness ==
  /\ client.op = "get_messages_with_summary"
  /\ client.llm_calls = 1
  /\ client.before.cached_summary = <<>>
  /\ client.before.summarized_count >= 1
  /\ SplitPoint <= client.before.summarized_count
  /\ Truthy(memory.cached_summary)

Unprocessed(items, g) ==
  SelectSeq(items, LAMBDA it : it.key \notin g.processed_notes)

\* C27: update_from_notes is idempotent per note key: a call changes the
\* graph only by the notes whose key was not processed before, whatever the
\* content, category or metadata the call gives for a processed key; a call
\* that holds processed keys only leaves nodes, edges and attributes as they
\* were.
C27_IdempotentPerKey ==
  [][client'.op = "update_from_notes" =>
       /\ graph' = update_from_notes(graph, Unprocessed(client'.notes, graph))
       /\ Unprocessed(client'.notes, graph) = <<>> =>
             /\ graph'.nodes = graph.nodes
             /\ graph'.edges = graph.edges]_vars

\* a processed key came again with a note that differs from every note that
\* would have produced the graph's credential node of that key
C27_Witness ==
  /\ client.op = "update_from_notes"
  /\ \E i \in 1..Len(client.notes) :
       /\ client.notes[i].note_data.isstr
       /\ has_node(graph, "cred:" \o client.notes[i].key)

EdgeOfType(g, source, target, type) ==
  \E i \in 1..Len(g.edges) :
     /\ g.edges[i].source = source
     /\ g.edges[i].target = target
     /\ g.edges[i].type = type

\* C28: when a credential note with key k is processed, and its metadata
\* gives a source S and a target T other than S, the graph has a CONTAINS
\* edge host:S -> cred:k and an AUTH_ACCESS edge cred:k -> host:T and no
\* AUTH_ACCESS edge cred:k -> host:S; whatever the note, cred:k has an
\* AUTH_ACCESS edge to each related host that is not its source host and
\* none to its source host.
C28_CredentialEdges ==
  [][client'.op = "update_from_notes" =>
       \A i \in 1..Len(client'.notes) :
          LET k == client'.notes[i].key
              d == client'.notes[i].note_data
              cred == "cred:" \o k
              related == related_hosts(d.content, d.metadata)
              source == source_host(d.content, d.metadata)
          IN (k \notin graph.processed_notes /\ ~d.isstr
                /\ d.category = "credential") =>
               /\ (/\ Given(d.metadata.source)
                   /\ Given(d.metadata.target)
                   /\ d.metadata.source # d.metadata.target) =>
                     /\ EdgeOfType(graph', "host:" \o d.metadata.source, cred,
                                   "CONTAINS")
                     /\ EdgeOfType(graph', cred, "host:" \o d.metadata.target,
                                   "AUTH_ACCESS")
                     /\ ~EdgeOfType(graph', cred, "host:" \o d.metadata.source,
                                    "AUTH_ACCESS")
               /\ \A j \in 1..Len(related) :
                     EdgeOfType(graph', cred, related[j], "AUTH_ACCESS")
                       <=> related[j] # source]_vars

\* a credential with a source and another target was processed
C28_Witness ==
  /\ client.op = "update_from_notes"
  /\ \E i \in 1..Len(client.notes) :
       LET d == client.notes[i].note_data
           cred == "cred:" \o client.notes[i].key
       IN /\ ~d.isstr
          /\ d.category = "credential"
          /\ d.metadata.source = "10.0.0.1"
          /\ d.metadata.target = "10.0.0.2"
          /\ EdgeOfType(graph, "host:10.0.0.1", cred, "CONTAINS")
          /\ EdgeOfType(graph, cred, "host:10.0.0.2", "AUTH_ACCESS")

RECURSIVE Walks(_, _, _)
\* the walks of n nodes that start at source
Walks(g, source, n) ==
  IF n = 1 THEN {<<source>>}
  ELSE UNION {{Append(w, m) : m \in {x \in NodeIds(g) : has_edge(g, w[Len(w)], x)}} :
                w \in Walks(g, source, n - 1)}

\* the walks of n nodes from source to target
WalksTo(g, source, target, n) ==
  {w \in Walks(g, source, n) : w[n] = target}

\* the pairs (credential, host), in the order of the nodes, that have no
\* edge from the credential to the host and a directed path between them
PivotPairs(g) ==
  SelectSeq(CredHostPairs(g),
            LAMBDA p : /\ ~has_edge(g, p[1], p[2])
                       /\ \E n \in 2..Len(g.nodes) :
                             WalksTo(g, p[1], p[2], n) # {})

\* the attack paths among the insights
Reported(insights) ==
  SelectSeq(insights, LAMBDA line : line[1] = "Attack Path Found:")

\* C29: get_strategic_insights reports one attack path for each pair of a
\* credential node c and a host node h such that there is no edge c -> h and
\* a directed path from c to h exists, and for no other pair; each reported
\* path has at least one intermediate node, is a shortest directed path from
\* c to h, and is written as the labels of its nodes in path order.
C29_AttackPaths ==
  client.op = "get_strategic_insights" =>
    LET reported == Reported(client.insights)
        pairs == PivotPairs(graph)
    IN /\ Len(reported) = Len(pairs)
       /\ \A i \in 1..Len(pairs) :
            \E n \in 3..Len(graph.nodes) :
               /\ \A m \in 1..(n - 1) :
                     WalksTo(graph, pairs[i][1], pairs[i][2], m) = {}
               /\ \E w \in WalksTo(graph, pairs[i][1], pairs[i][2], n) :
                     reported[i] =
                       <<"Attack Path Found:">>
                         \o Join([j \in 1..n |-> NodeOf(graph, w[j]).label], "->")

\* an attack path was reported while another credential reaches its host
\* directly
C29_Witness ==
  /\ client.op = "get_strategic_insights"
  /\ Reported(client.insights) # <<>>
  /\ \E i \in 1..Len(CredHostPairs(graph)) :
       has_edge(graph, CredHostPairs(graph)[i][1], CredHostPairs(graph)[i][2])

(***************************************************************************)
(* Properties of the notes store                                           *)
(***************************************************************************)
HasKey(dict, key) == \E i \in 1..Len(dict) : dict[i].key = key

\* the note under key, for a key that is present
NoteAt(dict, key) == dict[CHOOSE i \in 1..Len(dict) : dict[i].key = key]

\* the notes under the keys other than key
Others(dict, key) == SelectSeq(dict, LAMBDA e : e.key # key)

\* C30: a create on a key that is present returns an error and leaves the map
\* and the file as they were; a create that carries a key and a value, on a
\* key that is absent, adds the note; an update that carries a key and a
\* value sets the content of the note whether or not the key was present; no
\* create or update touches the note of another key, a create that succeeded
\* found its key absent, and no key is ever in the map twice.
C30_KeyUnique ==
  /\ [](\A i, j \in 1..Len(notes.notes) :
          notes.notes[i].key = notes.notes[j].key => i = j)
  /\ [][LET key == Strip(client'.key)
            value == client'.value
        IN /\ client'.action = "create" =>
                /\ HasKey(notes.notes, key) =>
                      /\ client'.result[1] = "Error:"
                      /\ notes'.notes = notes.notes
                      /\ notes'.file = notes.file
                /\ (~HasKey(notes.notes, key) /\ key # <<>> /\ value # <<>>) =>
                      /\ client'.result[1] = "Created note"
                      /\ HasKey(notes'.notes, key)
                      /\ NoteAt(notes'.notes, key).content = value
                      /\ notes'.file.items = notes'.notes
                /\ client'.result[1] = "Created note" =>
                      ~HasKey(notes.notes, key)
                /\ Others(notes'.notes, key) = Others(notes.notes, key)
           /\ (client'.action = "update" /\ key # <<>> /\ value # <<>>) =>
                /\ HasKey(notes'.notes, key)
                /\ NoteAt(notes'.notes, key).content = value
                /\ notes'.file.items = notes'.notes
                /\ Others(notes'.notes, key) = Others(notes.notes, key)]_vars

\* a create was refused for a key that holds a note with another content
C30_Witness ==
  /\ client.action = "create"
  /\ client.result[1] = "Error:"
  /\ client.value # <<>>
  /\ HasKey(notes.notes, Strip(client.key))
  /\ NoteAt(notes.notes, Strip(client.key)).content # client.value
  /\ notes.file.items = notes.notes

(***************************************************************************)
(* Properties of the shared notes store                                    *)
(***************************************************************************)
\* a dict as the function from its keys to their notes
AsMap(dict) ==
  [k \in {dict[i].key : i \in 1..Len(dict)} |->
     [content |-> NoteAt(dict, k).content,
      category |-> NoteAt(dict, k).category,
      confidence |-> NoteAt(dict, k).confidence]]

\* what one operation does to a map when it runs alone: the new map and
\* whether the operation succeeded
Alone(map, arguments) ==
  LET key == Strip(arguments.key)
      note == [content |-> arguments.value, category |-> "info",
               confidence |-> "medium"]
      with == [k \in DOMAIN map \cup {key} |->
                 IF k = key THEN note ELSE map[k]]
      without == [k \in DOMAIN map \ {key} |-> map[k]]
  IN CASE arguments.action = "create" ->
            IF key \in DOMAIN map THEN [map |-> map, ok |-> FALSE]
            ELSE [map |-> with, ok |-> TRUE]
       [] arguments.action = "update" -> [map |-> with, ok |-> TRUE]
       [] arguments.action = "delete" ->
            IF key \in DOMAIN map THEN [map |-> without, ok |-> TRUE]
            ELSE [map |-> map, ok |-> FALSE]

RECURSIVE Serial(_, _, _)
\* the operations calls[order[1]], calls[order[2]], ... one after the other:
\* the final map and, for each position, whether its operation succeeded
Serial(map, calls, order) ==
  IF order = <<>> THEN [map |-> map, oks |-> <<>>]
  ELSE LET first == Alone(map, calls[Head(order)].arguments)
           rest == Serial(first.map, calls, Tail(order))
       IN [map |-> rest.map, oks |-> <<first.ok>> \o rest.oks]

\* the call changed the store
Succeeded(call) ==
  call.result[1] \in {"Created note", "Updated", "Created", "Deleted note"}

\* the orders in which n calls can be put one after the other
Orders(n) ==
  {order \in [1..n -> 1..n] : \A i, j \in 1..n : i # j => order[i] # order[j]}

\* C31: whatever the tasks and the order in which their create, update and
\* delete calls run, the map and the file are what the calls give when they
\* are applied one at a time in some order, each call succeeding or failing
\* as it does in that order; the file holds the map once a call has changed
\* it; and of the creates of a key that was absent and that no other call
\* names, exactly one succeeds.
C31_Serializable ==
  LET calls == client.calls
      n == Len(calls)
  IN /\ \E order \in Orders(n) :
          LET serial == Serial(AsMap(client.start.notes), calls, order)
          IN /\ AsMap(notes.notes) = serial.map
             /\ \A i \in 1..n : Succeeded(calls[order[i]]) = serial.oks[i]
     /\ IF \E i \in 1..n : Succeeded(calls[i])
          THEN notes.file.exists /\ notes.file.valid
               /\ notes.file.items = notes.notes
          ELSE notes.file = client.start.file
     /\ \A i \in 1..n :
          LET key == Strip(calls[i].arguments.key)
              creates == {c \in 1..n :
                            /\ calls[c].arguments.action = "create"
                            /\ Strip(calls[c].arguments.key) = key}
          IN (/\ calls[i].arguments.action = "create"
              /\ ~HasKey(client.start.notes, key)
              /\ \A d \in 1..n :
                    Strip(calls[d].arguments.key) = key => d \in creates)
             => Cardinality({c \in creates : Succeeded(calls[c])}) = 1

\* two tasks created the same key, a third call deleted another note
C31_Witness ==
  /\ Len(client.calls) = 3
  /\ \E i, j, d \in 1..3 :
       /\ i < j
       /\ client.calls[i].caller # client.calls[j].caller
       /\ client.calls[i].arguments.action = "create"
       /\ client.calls[j].arguments.action = "create"
       /\ Strip(client.calls[i].arguments.key) = Strip(client.calls[j].arguments.key)
       /\ client.calls[i].arguments.value # client.calls[j].arguments.value
       /\ Succeeded(client.calls[i])
       /\ ~Succeeded(client.calls[j])
       /\ client.calls[d].arguments.action = "delete"
       /\ Succeeded(client.calls[d])

(***************************************************************************)
(* Properties of the workers' lifecycle                                    *)
(***************************************************************************)
TerminalEvents == {"complete", "warning", "cancelled", "error"}

\* positions of the events of ev that belong to names
EventsIn(ev, names) == {i \in 1..Len(ev) : ev[i] \in names}

\* the order of a worker's events: one spawn first, at most one status event
\* right after it, at most one terminal event and nothing after it
EventOrder(ev) ==
  /\ EventsIn(ev, {"spawn"}) = {1}
  /\ EventsIn(ev, {"status"}) \subseteq {2}
  /\ EventsIn(ev, TerminalEvents) \subseteq {Len(ev)}

\* C33: the events of each worker are one spawn, then (if it starts) one
\* status event, then tool events, then exactly one terminal event; and
\* whenever the worker's execution unit has settled, however it settled, the
\* worker's status is terminal and the matching terminal event is its last
\* event.
C33_WorkerLifecycle ==
  \A w \in DOMAIN workers :
     /\ EventOrder(workers[w].events)
     /\ Settled(w) =>
          /\ workers[w].status \in TerminalEvents
          /\ workers[w].events[Len(workers[w].events)] = workers[w].status

\* C34: the ids returned since the last reset are pairwise different and
\* their numbers increase strictly in the order of the spawns, whichever
\* callers issued them; every id returned names a recorded worker whose first
\* event is spawn, and a worker whose execution unit has not taken its first
\* step is pending with the spawn event as its only event.
C34_SpawnIds ==
  /\ \A i \in 1..Len(client.returned) : \A j \in 1..Len(client.returned) :
        i < j => /\ client.returned[i].worker_id # client.returned[j].worker_id
                 /\ client.returned[i].n < client.returned[j].n
  /\ \A i \in 1..Len(client.returned) :
        /\ client.returned[i].n \in DOMAIN workers
        /\ client.returned[i].n \in DOMAIN tasks
        /\ workers[client.returned[i].n].events[1] = "spawn"
  /\ \A w \in DOMAIN tasks :
        tasks[w].pc = "new" =>
          /\ workers[w].status = "pending"
          /\ workers[w].events = <<"spawn">>

\* after a reset two callers have spawned one worker each; the first has
\* taken its first step and the second has not
C34_Witness ==
  /\ client.resets > 0
  /\ Len(client.returned) = 2
  /\ client.returned[1].caller # client.returned[2].caller
  /\ client.returned[1].worker_id = "ghost-0"
  /\ client.returned[2].worker_id = "ghost-1"
  /\ tasks[0].pc # "new"
  /\ tasks[1].pc = "new"

(***************************************************************************)
(* Properties of the orchestrator's message log                            *)
(***************************************************************************)
\* the run is suspended inside a tool of its current batch
InCrewTool(o) == o.pc \in {"cancel_agent", "wait_for_agents", "synthesize"}

\* the assistant message at position j of the log has every call answered,
\* in call order, by the tool messages that follow it; the answers may stop
\* short only while the run is inside a tool of that batch
Answered(o, j) ==
  LET ids == o.messages[j].tool_calls
      given == Len(o.messages) - j
  IN /\ \A i \in 1..Len(ids) :
          j + i <= Len(o.messages) =>
            /\ o.messages[j + i].role = "tool"
            /\ o.messages[j + i].tool_call_id = ids[i]
     /\ given < Len(ids) =>
          /\ InCrewTool(o)
          /\ given = Len(o.results)
          /\ ids = [i \in 1..Len(ids) |-> o.response.tool_calls[i].id]

\* C35: in the orchestrator's log every tool call of an assistant message is
\* answered by exactly one tool message with the call's id, in call order,
\* once the iteration is over, whether the call returned, raised or named an
\* unknown tool; and a step on which a call raises records the error as that
\* call's answer, leaves the run out of its error exit and goes on with the
\* calls that remain.
C35_CallsAnswered ==
  /\ [](\A j \in 1..Len(orchestrator.messages) :
          (orchestrator.messages[j].role = "assistant"
             /\ orchestrator.messages[j].tool_calls # <<>>)
            => Answered(orchestrator, j))
  /\ [][(/\ InCrewTool(orchestrator)
          /\ Len(orchestrator'.results) > Len(orchestrator.results)
          /\ orchestrator'.results[Len(orchestrator.results) + 1].outcome = "raised")
         => /\ orchestrator'.phase # "error"
            /\ orchestrator'.state # "error"
            /\ \/ Len(orchestrator'.results) = Len(orchestrator'.response.tool_calls)
               \/ InCrewTool(orchestrator')]_vars

\* a batch of two calls is answered in the log: the first call raised, the
\* second returned, and the run went on to its next model call
C35_Witness ==
  /\ orchestrator.pc = "llm"
  /\ Len(orchestrator.results) = 2
  /\ orchestrator.results[1].outcome = "raised"
  /\ orchestrator.results[2].outcome = "returned"
  /\ Len(orchestrator.messages) >= 3
  /\ orchestrator.messages[Len(orchestrator.messages) - 2].tool_calls = <<1, 2>>
  /\ orchestrator.messages[Len(orchestrator.messages) - 1].tool_call_id = 1
  /\ orchestrator.messages[Len(orchestrator.messages)].tool_call_id = 2

(***************************************************************************)
(* Properties of cancel and of the dependency wait                         *)
(***************************************************************************)
\* C36: cancel(id) touches no worker but id: the call changes neither the
\* task nor the status of any other worker, so a dependency that a pending
\* worker waits for is not cancelled with it; and a worker that was pending
\* when its cancel succeeded never becomes running.
C36_CancelOnlyTarget ==
  /\ [][CancelCall =>
          \A o \in DOMAIN tasks \ {client'.id} :
             tasks'[o] = tasks[o] /\ workers'[o] = workers[o]]_vars
  /\ []((client.call = "cancel" /\ client.op = "none" /\ client.ret = "true"
           /\ client.was = "pending")
          => ~Has(workers[client.id].events, "status"))

\* C37: when model calls, tools and teardown come back, the execution unit of
\* every spawned worker eventually settles and a wait_for that is waiting
\* eventually returns, whatever the depends_on lists are.
C37_EveryUnitSettles ==
  /\ []<>(\A id \in DOMAIN tasks : Settled(id))
  /\ []<>(client.op # "wait_for")

====
